---- MODULE Spec2Model ----
(***************************************************************************)
(* The HSPICE .lis harvesting core of ibis-build: the three harvesters     *)
(* harvest_v2.py, hav.py and hav_v2.py, each modelled as a state machine   *)
(* over a document `lines` (a sequence of lines, each a sequence of        *)
(* whitespace-separated tokens).                                           *)
(*                                                                         *)
(* A token is a record [t, w, v]: t = "w" is a word (lower-cased, as the   *)
(* sources match case-insensitively), t = "n" is a number with value v.    *)
(* Reference voltages are integers in tenths of a volt (18 is 1.8).        *)
(* Python indices are kept 0-based; At(ls, k) reads ls[k].                 *)
(***************************************************************************)
EXTENDS Integers, Sequences, FiniteSets, TLC

VARIABLES
    prog,           \* which program this run executes
    pc,             \* its position
    lines,          \* the document: text.splitlines()
    \* harvest_v2.harvest_v2
    vt_idxs, vt_refs, vt_tags, iv_idxs, iv_refs, iv_tags,
    out_files,      \* (name, tag) -> data rows written by write_csv
    \* a direct call of harvest_v2.map_ref_to_corner
    refs, labels,
    \* hav.parse_lis and hav.write_outputs
    i, current_phase, seen_tables, latest, pending_cue, pending_cue_line,
    csv_files, meta_files,
    assigned,       \* history: the (key, block) pairs parse_lis stored, in order
    \* hav_v2.parse_lis and hav_v2.main (which share i with hav)
    phase, out, pending_params, current_cols, current_rows,
    vt_map, iv_map,
    v2_files,       \* (kind, phase, corner) -> content written by write_csv / write_params_csv
    v2_meta,        \* harvest_meta.json
    \* harvest.main and harvest.harvest (which share i with hav)
    h_exists,       \* args.lis_file.exists()
    current_context, table_index, written,
    h_files,        \* file name -> [header, rows] written by a write_csv
    exit_status,    \* the exit status of the run, None while it runs
    stderr,
    \* one TableBlock or NumericMatrixBlock object driven directly
    tb_headers, tb_rows,
    tb_input,       \* the rows still to be handed to add_row
    tb_file         \* what write_csv wrote

hv2vars == <<vt_idxs, vt_refs, vt_tags, iv_idxs, iv_refs, iv_tags, out_files>>
mrvars == <<refs, labels>>
havrest == <<current_phase, seen_tables, latest, pending_cue, pending_cue_line,
             csv_files, meta_files, assigned>>
havvars == <<i, havrest>>
v2vars == <<phase, out, pending_params, current_cols, current_rows,
            vt_map, iv_map, v2_files, v2_meta>>
hvars == <<h_exists, current_context, table_index, written, h_files, exit_status, stderr>>
tbvars == <<tb_headers, tb_rows, tb_input, tb_file>>
harvestvars == <<hvars, tbvars>>
vars == <<prog, pc, lines, hv2vars, mrvars, havvars, v2vars, harvestvars>>

(***************************************************************************)
(* Bounds of the model.                                                    *)
(***************************************************************************)
MaxBlocks == 3      \* table blocks in a harvest_v2 document
MaxRefs == 4        \* length of a list handed to map_ref_to_corner
MaxSegs == 6        \* segments (banner, table, ...) in a hav document
MaxHeaders == 3     \* columns of the header of a TableBlock driven directly
MaxRowLen == 3      \* fields of a row handed to add_row
MaxRowsIn == 2      \* rows handed to one block
MaxHSegs == 4       \* segments (header, row, ...) in a harvest.py document
MaxTempBlocks == 3  \* banner-and-table blocks in a hav_v2 document with temperatures
MaxHavLines == 5    \* lines of a hav.py document made of single lines
MaxTables == 4      \* tables handed to choose_corners_by_order_and_checks
MaxCueSegs == 5     \* segments of a hav.py document with .alter lines
MaxScanSegs == 2    \* segments of a document of the three scans side by side

(***************************************************************************)
(* Python values.                                                          *)
(***************************************************************************)
None == -1
NoLabel == "None"

W(s) == [t |-> "w", w |-> s, v |-> 0]
N(x) == [t |-> "n", w |-> "", v |-> x]
\* a token of the characters -+0-9Ee. only that is not a number
E(s) == [t |-> "e", w |-> s, v |-> 0]

Words(ws) == [k \in 1..Len(ws) |-> W(ws[k])]

At(ls, k) == ls[k + 1]
Slice(ls, a, b) == SubSeq(ls, a + 1, IF b < Len(ls) THEN b ELSE Len(ls))
Abs(x) == IF x < 0 THEN 0 - x ELSE x
MinOf(S) == CHOOSE x \in S : \A y \in S : x <= y
MaxOf(S) == CHOOSE x \in S : \A y \in S : x >= y

RECURSIVE sorted(_)
sorted(S) == IF S = {} THEN <<>> ELSE <<MinOf(S)>> \o sorted(S \ {MinOf(S)})

RECURSIVE FlatFrom(_, _)
FlatFrom(ls, k) ==
    IF k > Len(ls) THEN <<>>
    ELSE IF ls[k] = <<>> THEN FlatFrom(ls, k + 1)
    ELSE ls[k] \o FlatFrom(ls, k + 1)
Flat(ls) == FlatFrom(ls, 1)

\* re.search of a run of words: the words of pat occur consecutively in line
PatSearch(line, pat) ==
    \E k \in 0..(Len(line) - Len(pat)) :
        \A j \in 1..Len(pat) : line[k + j] = W(pat[j])

(***************************************************************************)
(* harvest_v2.py                                                           *)
(***************************************************************************)
is_numeric_row(s) == Len(s) > 0 /\ \A k \in 1..Len(s) : s[k].t = "n"

VT_HEADER == <<"time", "pulldown_on", "pulldown_off", "pullup_on", "pullup_off">>
IV_HEADER == <<"time", "v_sweep", "i_pulldown", "i_gndclamp", "i_pullup", "i_powerclamp">>

find_all_headers(ls, kind) ==
    LET pat == IF kind = "VT" THEN VT_HEADER ELSE IV_HEADER
        hit == {k \in 0..(Len(ls) - 1) : PatSearch(At(ls, k), pat)}
    IN  sorted(hit)

RECURSIVE skip_non_numeric(_, _)
skip_non_numeric(ls, j) ==
    IF j < Len(ls) /\ ~is_numeric_row(At(ls, j)) THEN skip_non_numeric(ls, j + 1) ELSE j

RECURSIVE take_numeric(_, _)
take_numeric(ls, j) ==
    IF j < Len(ls) /\ is_numeric_row(At(ls, j)) THEN take_numeric(ls, j + 1) ELSE j

parse_table(ls, hdr_idx) ==
    LET j0 == skip_non_numeric(ls, hdr_idx + 1)
        j1 == take_numeric(ls, j0)
    IN  [header |-> At(ls, hdr_idx), rows |-> Slice(ls, j0, j1), next |-> j1]

\* to_lower_map(header).get(name): the last column of that name, or None
hmap_get(header, name) ==
    LET S == {k \in 1..Len(header) : header[k] = W(name)}
    IN  IF S = {} THEN None ELSE MaxOf(S) - 1

\* Python's `a or b` on Optional[int]: None and 0 are both falsy
py_or(a, b) == IF a # None /\ a # 0 THEN a ELSE b

BEFORE == 80
window_text(ls, idx, before) ==
    Flat(Slice(ls, IF idx - before > 0 THEN idx - before ELSE 0, idx + 1))

\* re.search(key \s* = \s* number, win): the leftmost match in the window
first_match(win, key) ==
    LET S == {k \in 1..(Len(win) - 2) :
                 win[k] = W(key) /\ win[k + 1] = W("=") /\ win[k + 2].t = "n"}
    IN  IF S = {} THEN None ELSE win[MinOf(S) + 2].v

extract_nearby_ref(ls, hdr_idx) ==
    LET win == window_text(ls, hdr_idx, BEFORE)
        m1 == first_match(win, "power_cl_ref")
    IN  IF m1 # None THEN m1 ELSE first_match(win, "vpower")

RECURSIVE in_order(_, _)
in_order(rs, k) ==
    IF k > Len(rs) THEN <<>>
    ELSE IF rs[k] = None \/ \E j \in 1..(k - 1) : rs[j] = rs[k] THEN in_order(rs, k + 1)
    ELSE <<rs[k]>> \o in_order(rs, k + 1)
\* mutant: the distinct values in document order, the sort forgotten
finite_unsorted(rs) == in_order(rs, 1)
finite_of(rs) == sorted({rs[k] : k \in 1..Len(rs)} \ {None})

\* diffs.index(min(diffs)), 0-based
index_of_min(d) ==
    (CHOOSE k \in 1..Len(d) :
        (\A j \in 1..Len(d) : d[k] <= d[j]) /\ (\A j \in 1..(k - 1) : d[j] > d[k])) - 1

CORNERS == <<"min", "typ", "max">>
ORDER == <<"typ", "min", "max">>

label_for(r, finite) ==
    IF Len(finite) = 0 THEN NoLabel
    ELSE IF Len(finite) = 1 THEN "typ"
    ELSE IF Len(finite) = 2 THEN (IF r = finite[1] THEN "min" ELSE "max")
    ELSE LET diffs == [k \in 1..Len(finite) |-> Abs(r - finite[k])]
             idx == index_of_min(diffs)
         IN  IF idx < Len(CORNERS) THEN At(CORNERS, idx) ELSE "IndexError"

\* mutant: every table without a label falls back to typ
fill_none_typ(k, lab) == IF lab = NoLabel THEN "typ" ELSE lab
fill_none(k, lab) ==
    IF lab = NoLabel THEN (IF k < Len(ORDER) THEN At(ORDER, k) ELSE "typ") ELSE lab

\* [exc |-> the exception raised, or "", val |-> the list returned]
map_ref_to_corner(rs) ==
    LET finite == finite_of(rs)
        prelim == [k \in 1..Len(rs) |->
                     IF rs[k] # None THEN label_for(rs[k], finite) ELSE NoLabel]
    IN  IF \E k \in 1..Len(rs) : prelim[k] = "IndexError"
        THEN [exc |-> "IndexError", val |-> <<>>]
        ELSE [exc |-> "", val |-> [k \in 1..Len(rs) |-> fill_none(k - 1, prelim[k])]]

\* one (idx, tag) iteration of a write loop: st = [exc, files]
emit(st, rows, header, col_idx, name, tag) ==
    LET tpos == hmap_get(header, "time")
        keep == SelectSeq(rows, LAMBDA r : Len(r) > col_idx)
    IN  IF st.exc # "" THEN st
        ELSE IF \E k \in 1..Len(keep) : Len(keep[k]) <= tpos
        THEN [st EXCEPT !.exc = "IndexError"]
        ELSE [st EXCEPT !.files =
                 (<<name, tag>> :> [k \in 1..Len(keep) |->
                                       <<At(keep[k], tpos), At(keep[k], col_idx)>>]) @@ @]

vt_table(st, ls, idx, tag) ==
    LET tb == parse_table(ls, idx)
        header == tb.header
        rows == tb.rows
        t_idx == py_or(hmap_get(header, "time"), hmap_get(header, "index time"))
        pd_on == hmap_get(header, "pulldown_on")
        pd_off == hmap_get(header, "pulldown_off")
        pu_on == hmap_get(header, "pullup_on")
        pu_off == hmap_get(header, "pullup_off")
    IN  IF t_idx = None \/ None \in {pd_on, pd_off, pu_on, pu_off} THEN st
        ELSE emit(emit(emit(emit(st, rows, header, pd_on, "vt_fall_pd_on", tag),
                            rows, header, pd_off, "vt_fall_pd_off", tag),
                       rows, header, pu_on, "vt_rise_pu_on", tag),
                  rows, header, pu_off, "vt_rise_pu_off", tag)

dump(st, rows, vs, col_idx, name, tag) ==
    LET keep == SelectSeq(rows, LAMBDA r : Len(r) > (IF vs > col_idx THEN vs ELSE col_idx))
    IN  IF st.exc # "" \/ col_idx = None THEN st
        ELSE [st EXCEPT !.files =
                 (<<name, tag>> :> [k \in 1..Len(keep) |->
                                       <<At(keep[k], vs), At(keep[k], col_idx)>>]) @@ @]

iv_table(st, ls, idx, tag) ==
    LET tb == parse_table(ls, idx)
        header == tb.header
        rows == tb.rows
        vs == hmap_get(header, "v_sweep")
        ipd == hmap_get(header, "i_pulldown")
        igc == hmap_get(header, "i_gndclamp")
        ipu == hmap_get(header, "i_pullup")
        ipc == hmap_get(header, "i_powerclamp")
    IN  IF vs = None THEN st
        ELSE dump(dump(dump(dump(st, rows, vs, ipd, "pulldown", tag),
                            rows, vs, igc, "gnd_clamp", tag),
                       rows, vs, ipu, "pullup", tag),
                  rows, vs, ipc, "power_clamp", tag)

\* for idx, tag in zip(idxs, tags): ...
RECURSIVE write_loop(_, _, _, _, _, _)
write_loop(st, ls, kind, idxs, tags, k) ==
    IF k > Len(idxs) \/ k > Len(tags) \/ st.exc # "" THEN st
    ELSE write_loop(IF kind = "VT" THEN vt_table(st, ls, idxs[k], tags[k])
                                   ELSE iv_table(st, ls, idxs[k], tags[k]),
                    ls, kind, idxs, tags, k + 1)

refs_of(ls, idxs) == [k \in 1..Len(idxs) |-> extract_nearby_ref(ls, idxs[k])]

(***************************************************************************)
(* Documents of harvest_v2: up to MaxBlocks table blocks.  A block is      *)
(* `gap` lines of text, an optional `key = value` line, a header line and  *)
(* three numeric rows; the rows of block b carry b in every data value.    *)
(***************************************************************************)
RefVals == {18, 25, 33}
Gaps == {0, 75}
DocKinds == {[kind |-> k, index |-> x] : k \in {"VT", "IV"}, x \in BOOLEAN}
BlockParams ==
    {[key |-> "none", val |-> 0, gap |-> g] : g \in Gaps}
    \cup {[key |-> "vpower", val |-> v, gap |-> g] : v \in RefVals, g \in Gaps}
    \cup {[key |-> "power_cl_ref", val |-> v, gap |-> g] : v \in {18, 33}, g \in Gaps}

HeaderLine(dk) ==
    (IF dk.index THEN <<W("index")>> ELSE <<>>)
    \o Words(IF dk.kind = "VT" THEN VT_HEADER ELSE IV_HEADER)
RowLine(dk, b, j) ==
    (IF dk.index THEN <<N(j)>> ELSE <<>>)
    \o [c \in 1..(IF dk.kind = "VT" THEN 5 ELSE 6) |-> IF c = 1 THEN N(j) ELSE N(10 * b + c)]
Block(dk, bp, b) ==
    [g \in 1..bp.gap |-> <<>>]
    \o (IF bp.key = "none" THEN <<>> ELSE << <<W(bp.key), W("="), N(bp.val)>> >>)
    \o <<HeaderLine(dk)>>
    \o [j \in 1..3 |-> RowLine(dk, b, j)]

RECURSIVE BuildDoc(_, _, _)
BuildDoc(dk, bps, b) ==
    IF b > Len(bps) THEN <<>> ELSE Block(dk, bps[b], b) \o BuildDoc(dk, bps, b + 1)

RefLists == UNION {[1..n -> (1..MaxRefs) \cup {None}] : n \in 0..MaxRefs}

(***************************************************************************)
(* hav.py                                                                  *)
(***************************************************************************)
NoPhase == "None"
NoCue == "None"
PHASES == {"vt", "iv"}

\* v-?t\s+curve\s+simulations, i-?v\s+curve\s+simulations
BannerSearch(line, a, b) ==
    \E k \in 0..(Len(line) - 3) :
        /\ line[k + 1] \in {W(a), W(b)}
        /\ line[k + 2] = W("curve")
        /\ line[k + 3] = W("simulations")
VT_BANNER(line) == BannerSearch(line, "v-t", "vt")
IV_BANNER(line) == BannerSearch(line, "i-v", "iv")

ALTER_LINE(line) == Len(line) > 0 /\ line[1] = W(".alter")
CUE_MIN == {"min", "minimum", "slow", "ss"}
CUE_MAX == {"max", "maximum", "fast", "ff"}
HAV_NUM_ROW(s) == Len(s) >= 2 /\ \A k \in 1..Len(s) : s[k].t \in {"n", "e"}

cue_from_text(s) ==
    IF \E k \in 1..Len(s) : s[k].t = "w" /\ s[k].w \in CUE_MIN THEN "min"
    ELSE IF \E k \in 1..Len(s) : s[k].t = "w" /\ s[k].w \in CUE_MAX THEN "max"
    ELSE NoCue

\* line.split('$', 1)[1]: the text after the first `$`
after_dollar(line) ==
    LET S == {k \in 1..Len(line) : line[k] = W("$")}
    IN  SubSeq(line, MinOf(S) + 1, Len(line))
has_dollar(line) == \E k \in 1..Len(line) : line[k] = W("$")
starts_with_dollar(s) == Len(s) > 0 /\ s[1] = W("$")

\* the look-ahead over comment-only lines (lines 58-67)
RECURSIVE look_ahead(_, _, _)
look_ahead(ls, k, hops) ==
    IF k < Len(ls) /\ hops > 0
    THEN LET s == At(ls, k)
         IN  IF starts_with_dollar(s)
             THEN (IF cue_from_text(s) # NoCue THEN cue_from_text(s)
                   ELSE look_ahead(ls, k + 1, hops - 1))
             ELSE IF Len(s) > 0 THEN NoCue
             ELSE look_ahead(ls, k + 1, hops - 1)
    ELSE NoCue

alter_cue(ls, k) ==
    LET line == At(ls, k)
        cue == IF has_dollar(line) THEN cue_from_text(after_dollar(line)) ELSE NoCue
    IN  IF cue # NoCue THEN cue ELSE look_ahead(ls, k + 1, 6)

RECURSIVE next_nonblank(_, _)
next_nonblank(ls, j) ==
    IF j < Len(ls) /\ At(ls, j) = <<>> THEN next_nonblank(ls, j + 1) ELSE j

RECURSIVE find_y(_, _)
find_y(ls, j) ==
    IF j < Len(ls) /\ At(ls, j) # <<W("y")>> THEN find_y(ls, j + 1) ELSE j

\* mutant: the cue stays pending after a table recorded it
consume_cue_keep(cue, ph) == cue
\* pending_cue[current_phase] = None
consume_cue(cue, ph) == [cue EXCEPT ![ph] = NoCue]

\* mutant: the first two tables are typ and min, later ones max
corner_of_typ_first(idx) == IF idx = 1 THEN "typ" ELSE IF idx = 2 THEN "min" ELSE "max"
corner_of(idx) == IF idx = 1 THEN "min" ELSE IF idx = 2 THEN "max" ELSE "typ"

\* mutant: a table is stored only under a key that holds none yet
store_first(lat, key, block) == IF key \in DOMAIN lat THEN lat ELSE (key :> block) @@ lat
\* latest[(current_phase, corner)] = {...}
store(lat, key, block) == (key :> block) @@ lat

TARGETS == <<<<"vt", "min">>, <<"vt", "max">>, <<"vt", "typ">>,
             <<"iv", "min">>, <<"iv", "max">>, <<"iv", "typ">>>>
NO_DATA_FOUND == <<W("NO_DATA_FOUND")>>
POLICY == "by_sequence_min_max_typ"

\* the CSV and the metadata written for one target (lines 136-168)
csv_of(lat, key) ==
    IF key \notin DOMAIN lat THEN <<NO_DATA_FOUND>>
    ELSE <<lat[key].header>> \o lat[key].rows
meta_of(lat, key) ==
    IF key \notin DOMAIN lat
    THEN [phase |-> key[1], corner |-> key[2], columns |-> NO_DATA_FOUND, rows |-> 0,
          metadata |-> [label_policy |-> POLICY, missing |-> TRUE]]
    ELSE [phase |-> key[1], corner |-> key[2], columns |-> lat[key].header,
          rows |-> Len(lat[key].rows), metadata |-> lat[key].meta]

\* mutant: a target with no table is skipped instead of stubbed
RECURSIVE write_found_only(_, _, _)
write_found_only(st, lat, k) ==
    IF k > Len(TARGETS) THEN st
    ELSE IF TARGETS[k] \notin DOMAIN lat THEN write_found_only(st, lat, k + 1)
    ELSE write_found_only([csv |-> (TARGETS[k] :> csv_of(lat, TARGETS[k])) @@ st.csv,
                           meta |-> (TARGETS[k] :> meta_of(lat, TARGETS[k])) @@ st.meta],
                          lat, k + 1)
\* for phase, corner in targets: ... (st = [csv, meta], the files written so far)
RECURSIVE write_targets(_, _, _)
write_targets(st, lat, k) ==
    IF k > Len(TARGETS) THEN st
    ELSE write_targets([csv |-> (TARGETS[k] :> csv_of(lat, TARGETS[k])) @@ st.csv,
                        meta |-> (TARGETS[k] :> meta_of(lat, TARGETS[k])) @@ st.meta],
                       lat, k + 1)

(***************************************************************************)
(* Documents of hav.py: up to MaxSegs segments.                            *)
(***************************************************************************)
X_LINE == <<W("x")>>
Y_LINE == <<W("y")>>
HavSegs ==
    { << <<W("v-t"), W("curve"), W("simulations")>> >>,
      << <<W("i-v"), W("curve"), W("simulations")>> >>,
      << X_LINE, <<W("time"), W("va")>>, <<N(1), N(2)>>, Y_LINE >>,
      << <<W(".alter"), W("$"), W("max")>>, X_LINE, <<W("time"), W("vb")>>, Y_LINE >>,
      << X_LINE >> }

RECURSIVE DocsOf(_, _)
DocsOf(segs, n) ==
    IF n = 0 THEN {<<>>}
    ELSE LET shorter == DocsOf(segs, n - 1)
         IN  shorter \cup {d \o sg : d \in shorter, sg \in segs}

\* Documents of hav.py with .alter lines, with and without a cue, and the
\* comment lines the look-ahead reads
HavCueSegs ==
    { << <<W("v-t"), W("curve"), W("simulations")>> >>,
      << <<W("i-v"), W("curve"), W("simulations")>> >>,
      << <<W(".alter"), W("$"), W("max")>> >>,
      << <<W(".alter")>> >>,
      << <<W("$"), W("min")>> >>,
      << X_LINE, <<W("time"), W("va")>>, Y_LINE >> }

\* Documents of hav.py made line by line, so that `x`, `y`, banners and
\* .alter lines meet in every order
HavLines ==
    { <<W("v-t"), W("curve"), W("simulations")>>,
      <<W("i-v"), W("curve"), W("simulations")>>,
      X_LINE, Y_LINE,
      <<W("time"), W("va")>>,
      <<N(1), N(2)>>,
      <<W(".alter"), W("$"), W("max")>>,
      <<W(".alter")>> }
HavLineDocs == UNION {[1..n -> HavLines] : n \in 0..MaxHavLines}

(***************************************************************************)
(* hav_v2.py                                                               *)
(***************************************************************************)
IV_DEFAULT_HDR == Words(<<"time", "v_sweep", "i_pulldown", "i_gndclamp", "i_pullup",
                          "i_powerclamp">>)
VT_DEFAULT_HDR == Words(<<"time", "pulldown_on", "pulldown_off", "pullup_on", "pullup_off">>)
\* the synthesized column name f"col{j}"
Col(j) == [t |-> "c", w |-> "col", v |-> j]
\* the words of the model's documents that match [a-zA-Z_]\w*
IDENTIFIERS == {"temp", "tnom", "vpower", "time", "x", "y"}

V2_NUM_ROW(s) == Len(s) >= 2 /\ \A k \in 1..Len(s) : s[k].t = "n"
has_non_numeric_tokens(s) == \E k \in 1..Len(s) : s[k].t # "n"

col_names(from, n) == [k \in 1..n |-> Col(from + k - 1)]
synthesize_headers(ph, ncols) ==
    LET base == IF ph = "iv" THEN IV_DEFAULT_HDR ELSE VT_DEFAULT_HDR
        hdr == SubSeq(base, 1, IF ncols < Len(base) THEN ncols ELSE Len(base))
    IN  hdr \o col_names(Len(hdr), ncols - Len(hdr))

STARS(t) == \E k \in 1..Len(t) : t[k] = W("******")
PARAM_KV(t) ==
    /\ Len(t) = 3
    /\ t[1].t = "w" /\ t[1].w \in IDENTIFIERS
    /\ t[2] = W("=") /\ t[3].t = "n"
put(d, k, val) == (k :> val) @@ d

\* st = [out, phase, pending_params, current_cols, current_rows, exc];
\* current_cols = <<>> stands for None
\* mutant: the params stay pending after a table took them
flush_table_keep(st) ==
    IF st.current_rows = <<>> THEN [st EXCEPT !.pending_params = <<>>]
    ELSE LET ncols == Len(st.current_rows[1])
             cols == IF st.current_cols = <<>>
                     THEN synthesize_headers(st.phase, ncols)
                     ELSE IF Len(st.current_cols) > ncols
                     THEN SubSeq(st.current_cols, 1, ncols)
                     ELSE st.current_cols
                          \o col_names(Len(st.current_cols), ncols - Len(st.current_cols))
             tbl == [cols |-> cols, rows |-> st.current_rows, params |-> st.pending_params]
         IN  IF st.phase \notin PHASES THEN [st EXCEPT !.exc = "KeyError"]
             ELSE [st EXCEPT !.out[st.phase] = Append(@, tbl),
                             !.current_cols = <<>>,
                             !.current_rows = <<>>]
flush_table(st) ==
    IF st.current_rows = <<>> THEN [st EXCEPT !.pending_params = <<>>]
    ELSE LET ncols == Len(st.current_rows[1])
             cols == IF st.current_cols = <<>>
                     THEN synthesize_headers(st.phase, ncols)
                     ELSE IF Len(st.current_cols) > ncols
                     THEN SubSeq(st.current_cols, 1, ncols)
                     ELSE st.current_cols
                          \o col_names(Len(st.current_cols), ncols - Len(st.current_cols))
             tbl == [cols |-> cols, rows |-> st.current_rows, params |-> st.pending_params]
         IN  IF st.phase \notin PHASES THEN [st EXCEPT !.exc = "KeyError"]
             ELSE [st EXCEPT !.out[st.phase] = Append(@, tbl),
                             !.current_cols = <<>>,
                             !.current_rows = <<>>,
                             !.pending_params = <<>>]

\* the parameter block after a banner (lines 96-118 for vt, 128-143 for iv):
\* [j |-> where the scan stops, params |-> what it collected]
\* mutant: the sub-scan hands back the line of the banner itself
param_scan_stay(ls, j, params, ph) == [j |-> j - 1, params |-> params]
RECURSIVE param_scan(_, _, _, _)
param_scan(ls, j, params, ph) ==
    IF j >= Len(ls) THEN [j |-> j, params |-> params]
    ELSE LET t == At(ls, j)
             banner == IF ph = "vt" THEN VT_BANNER(t) ELSE IV_BANNER(t)
             p1 == IF first_match(t, "temp") # None
                   THEN put(params, "temp", first_match(t, "temp")) ELSE params
             p2 == IF first_match(t, "tnom") # None
                   THEN put(p1, "tnom", first_match(t, "tnom")) ELSE p1
         IN  IF STARS(t) \/ banner THEN param_scan(ls, j + 1, params, ph)
             ELSE IF ph = "vt" /\ PARAM_KV(t)
             THEN param_scan(ls, j + 1, put(p2, t[1].w, t[3].v), ph)
             ELSE IF V2_NUM_ROW(t) \/ t = <<>> THEN [j |-> j, params |-> p2]
             ELSE param_scan(ls, j + 1, p2, ph)

\* mutant: numeric rows are read whatever the phase
data_row_any(st, s) == V2_NUM_ROW(s)
\* phase in ('vt', 'iv') and NUM_ROW.match(s)
data_row(st, s) == st.phase \in PHASES /\ V2_NUM_ROW(s)

\* one iteration of parse_lis's `while i < len(lines)`: [st, i]
parse_iteration(ls, k, st) ==
    LET s == At(ls, k)
        ph == IF VT_BANNER(s) THEN "vt" ELSE "iv"
        flushed == flush_table(st)
        scan == param_scan(ls, k + 1, <<>>, ph)
        appended == [st EXCEPT !.current_rows = Append(@, s)]
    IN  IF VT_BANNER(s) \/ IV_BANNER(s)
        THEN [st |-> [flushed EXCEPT !.phase = ph,
                                     !.pending_params = scan.params,
                                     !.current_cols = <<>>,
                                     !.current_rows = <<>>],
              i |-> scan.j]
        ELSE IF st.phase \in PHASES /\ s = <<W("x")>>
        THEN [st |-> st, i |-> k + 1]
        ELSE IF st.phase \in PHASES /\ s # <<>> /\ ~V2_NUM_ROW(s)
                /\ has_non_numeric_tokens(s)
        THEN [st |-> [st EXCEPT !.current_cols = s], i |-> k + 1]
        ELSE IF data_row(st, s)
        THEN [st |-> IF k + 1 >= Len(ls) \/ ~V2_NUM_ROW(At(ls, k + 1))
                     THEN flush_table(appended) ELSE appended,
              i |-> k + 1]
        ELSE [st |-> st, i |-> k + 1]

EMPTY_TABLE == <<>>
\* tbl.get(k), with <<>> for a missing key
tbl_get(tbl, k) == IF k \in DOMAIN tbl THEN tbl[k] ELSE <<>>
\* mutant: a temperature of 0 counts as missing
temp_of_truthy(tbl) ==
    LET ps == tbl_get(tbl, "params")
    IN  IF "temp" \in DOMAIN ps /\ ps["temp"] # 0 THEN ps["temp"] ELSE None
\* mapping[k].get('params', {}).get('temp')
temp_of(tbl) ==
    LET ps == tbl_get(tbl, "params")
    IN  IF "temp" \in DOMAIN ps THEN ps["temp"] ELSE None

\* phase_tables + [{}] * (3 - len(phase_tables))
pad3(tables) ==
    IF Len(tables) < 3 THEN tables \o [k \in 1..(3 - Len(tables)) |-> EMPTY_TABLE]
    ELSE tables

\* mutant: the corners sorted from the highest temperature down
sorted_by_temp_desc(temps) ==
    LET pos == [c \in {"typ", "min", "max"} |->
                   IF c = "typ" THEN 1 ELSE IF c = "min" THEN 2 ELSE 3]
        before(a, b) == temps[a] > temps[b] \/ (temps[a] = temps[b] /\ pos[a] < pos[b])
        nth(r) == CHOOSE c \in DOMAIN pos :
                     Cardinality({d \in DOMAIN pos : before(d, c)}) = r
    IN  <<nth(0), nth(1), nth(2)>>
\* sorted(['typ','min','max'], key=temps): a stable sort
sorted_by_temp(temps) ==
    LET pos == [c \in {"typ", "min", "max"} |->
                   IF c = "typ" THEN 1 ELSE IF c = "min" THEN 2 ELSE 3]
        before(a, b) == temps[a] < temps[b] \/ (temps[a] = temps[b] /\ pos[a] < pos[b])
        nth(r) == CHOOSE c \in DOMAIN pos :
                     Cardinality({d \in DOMAIN pos : before(d, c)}) = r
    IN  <<nth(0), nth(1), nth(2)>>

get_pdon_last(tbl) ==
    LET cols == tbl_get(tbl, "cols")
        rows == tbl_get(tbl, "rows")
        hits(cand) == {k \in 1..Len(cols) : cols[k] = W(cand)}
        cand == IF hits("pulldown_on") # {} THEN "pulldown_on"
                ELSE IF hits("pd_on") # {} THEN "pd_on"
                ELSE IF hits("pull_down_on") # {} THEN "pull_down_on" ELSE ""
        cand_idx == MinOf(hits(cand)) - 1
        last == rows[Len(rows)]
    IN  IF cols = <<>> \/ rows = <<>> \/ cand = "" THEN None
        ELSE IF cand_idx >= Len(last) \/ At(last, cand_idx).t # "n" THEN None
        ELSE At(last, cand_idx).v

\* mutant: the corners are taken from the end of the list
first_three_last(tables) ==
    LET t == pad3(tables)
    IN  [typ |-> t[1], min |-> t[2], max |-> t[Len(t)]]
\* mapping = {'typ': phase_tables[0], 'min': phase_tables[1], 'max': phase_tables[2]}
first_three(tables) ==
    LET t == pad3(tables)
    IN  [typ |-> t[1], min |-> t[2], max |-> t[3]]

\* mutant: equal end values pass the check
vt_order_weak(v) == v["min"] <= v["typ"] /\ v["typ"] <= v["max"]
\* v['min'] < v['typ'] < v['max']
vt_order(v) == v["min"] < v["typ"] /\ v["typ"] < v["max"]

choose_corners_by_order_and_checks(phase_tables, ph) ==
    LET m0 == first_three(phase_tables)
        temps == [c \in {"typ", "min", "max"} |-> temp_of(m0[c])]
        all_temps == \A c \in DOMAIN temps : temps[c] # None
        srt == sorted_by_temp(temps)
        m1 == IF all_temps
              THEN [max |-> m0[srt[1]], typ |-> m0[srt[2]], min |-> m0[srt[3]]]
              ELSE m0
        v == [c \in {"min", "typ", "max"} |-> get_pdon_last(m1[c])]
        vt_warning ==
            IF ph # "vt" THEN ""
            ELSE IF \A c \in DOMAIN v : v[c] # None
            THEN (IF vt_order(v) THEN "" ELSE "order_failed")
            ELSE "not_found"
    IN  [typ |-> m1.typ, min |-> m1.min, max |-> m1.max,
         temp_info |-> all_temps, temp_warning |-> ~all_temps, vt_warning |-> vt_warning]

\* write_csv: files with (ph, corner)'s table added, or unchanged without rows
write_csv(files, ph, corner, cols, rows) ==
    LET ncols == Len(rows[1])
        defaults == IF ph = "iv" THEN IV_DEFAULT_HDR ELSE VT_DEFAULT_HDR
        padded == defaults \o col_names(Len(defaults), ncols - Len(defaults))
        hdr == IF cols = <<>> \/ Len(cols) # ncols THEN SubSeq(padded, 1, ncols) ELSE cols
    IN  IF rows = <<>> THEN files
        ELSE put(files, <<"csv", ph, corner>>, <<hdr>> \o rows)

\* the body of main's two write loops for one (phase, corner)
write_corner(files, ph, corner, tbl) ==
    LET f1 == write_csv(files, ph, corner, tbl_get(tbl, "cols"), tbl_get(tbl, "rows"))
    IN  IF tbl = EMPTY_TABLE \/ tbl_get(tbl, "rows") = <<>> THEN files
        ELSE IF ph = "vt" /\ tbl_get(tbl, "params") # <<>>
        THEN put(f1, <<"params", ph, corner>>, tbl_get(tbl, "params"))
        ELSE f1

write_phase(files, ph, m) ==
    write_corner(write_corner(write_corner(files, ph, "typ", m.typ), ph, "min", m.min),
                 ph, "max", m.max)

(***************************************************************************)
(* Documents of hav_v2.py: up to MaxSegs segments.                         *)
(***************************************************************************)
V2Segs ==
    { << <<W("v-t"), W("curve"), W("simulations")>> >>,
      << <<W("i-v"), W("curve"), W("simulations")>> >>,
      << <<W("temp"), W("="), N(25)>> >>,
      << <<>>, <<W("time"), W("pulldown_on")>>, <<N(1), N(2)>> >>,
      << <<N(3), N(4), N(5)>> >> }

\* Documents of blocks: a phase banner, a `temp = t` line or none, and a
\* table whose one row starts with t
TEMPS == {0, 25, 85}
TempBlock(ph, t, with_temp) ==
    << IF ph = "vt" THEN <<W("v-t"), W("curve"), W("simulations")>>
       ELSE <<W("i-v"), W("curve"), W("simulations")>> >>
    \o (IF with_temp THEN << <<W("temp"), W("="), N(t)>> >> ELSE <<>>)
    \o << <<>>, <<W("time"), W("pulldown_on")>>, <<N(t), N(t)>> >>
TempBlocks == {TempBlock(ph, t, b) : ph \in {"vt", "iv"}, t \in TEMPS, b \in BOOLEAN}

(***************************************************************************)
(* harvest.py.  Its lines mark a run of two or more blanks between tokens  *)
(* with the token GAP, as split_cols separates columns there; a column is  *)
(* a sequence of tokens.  A number written with a Fortran exponent is      *)
(* ND(x); '' is EMPTY.  tokens_from_numeric_line returns <<>> for None.    *)
(***************************************************************************)
GAP == [t |-> "g", w |-> "  ", v |-> 0]
ND(x) == [t |-> "n", w |-> "D", v |-> x]
EMPTY == [t |-> "w", w |-> "", v |-> 0]
\* the one-letter words of the documents
LETTERS == {"x", "y"}
\* the words of the documents made of letters only
ALPHA == {"transient", "dc", "analysis", "operating", "point", "information", "node",
          "text", "time", "va", "vdd", "out", "x", "y"}
\* the words no character of which survives slugify
PUNCT == {"=", "(", ")", "+", "******"}

\* re.split(r'[ \t]+', s)
ws_split(line) == SelectSeq(line, LAMBDA tok : tok # GAP)

RECURSIVE split_cols(_)
split_cols(line) ==
    LET S == {k \in 1..Len(line) : line[k] = GAP}
    IN  IF S = {} THEN <<line>>
        ELSE <<SubSeq(line, 1, MinOf(S) - 1)>>
             \o split_cols(SubSeq(line, MinOf(S) + 1, Len(line)))

\* is_number_token of a column or of one token
is_number_token(col) == Len(col) = 1 /\ col[1].t = "n"
has_eq(line) == \E k \in 1..Len(line) : line[k] = W("=")
starts_with(line, word) == Len(line) > 0 /\ line[1] = W(word)

looks_like_header(line) ==
    LET cols == split_cols(line)
    IN  /\ ~has_eq(line)
        /\ Len(cols) >= 2
        /\ Cardinality({k \in 1..Len(cols) : ~is_number_token(cols[k])}) >= 2

tokens_from_numeric_line(line) ==
    LET cols == ws_split(line)
        num_count == Cardinality({k \in 1..Len(cols) : cols[k].t = "n"})
        half == Len(cols) \div 2
    IN  IF cols = <<>> THEN <<>>
        ELSE IF starts_with(line, "+") THEN <<>>
        ELSE IF cols = <<W("(")>> \/ cols = <<W(")")>> THEN <<>>
        ELSE IF Len(cols) = 1 /\ cols[1].t = "w" /\ cols[1].w \in LETTERS THEN <<>>
        ELSE IF cols[1].t # "n" THEN <<>>
        ELSE IF num_count >= (IF half > 1 THEN half ELSE 1) THEN cols
        ELSE <<>>

\* tok.replace('D', 'E').replace('d', 'E') on the words of the documents
replace_d(w) ==
    IF w = "vdd" THEN "vEE" ELSE IF w \in {"D", "d"} THEN "E" ELSE IF w = "dc" THEN "Ec"
    ELSE IF w = "node" THEN "noEe" ELSE w
parse_number(tok) == [tok EXCEPT !.w = replace_d(@)]

\* mutant: rows longer than the header are kept whole
add_row_no_trim(headers, row) ==
    LET padded == IF Len(row) < Len(headers)
                  THEN row \o [k \in 1..(Len(headers) - Len(row)) |-> EMPTY]
                  ELSE row
    IN  [k \in 1..Len(padded) |-> parse_number(padded[k])]
\* TableBlock.add_row: the row it appends to self.rows
add_row(headers, row) ==
    LET fitted == IF Len(row) < Len(headers)
                  THEN row \o [k \in 1..(Len(headers) - Len(row)) |-> EMPTY]
                  ELSE IF Len(row) > Len(headers) THEN SubSeq(row, 1, Len(headers))
                  ELSE row
    IN  [k \in 1..Len(fitted) |-> parse_number(fitted[k])]

\* NumericMatrixBlock.add_row
matrix_add_row(cols) == [k \in 1..Len(cols) |-> parse_number(cols[k])]

RECURSIVE add_rows(_, _, _)
add_rows(headers, rows, k) ==
    IF k > Len(rows) THEN <<>>
    ELSE <<add_row(headers, rows[k])>> \o add_rows(headers, rows, k + 1)

\* str.lower on the words of the documents
lower(w) == IF w = "Node" THEN "node" ELSE IF w = "Value" THEN "value" ELSE w
\* slugify on a sequence of tokens: lower case; blanks and punctuation become
\* one '-' (the names of the documents are shorter than max_len)
slugify(toks) ==
    LET kept == SelectSeq(toks, LAMBDA tok : tok # GAP /\ ~(tok.t = "w" /\ tok.w \in PUNCT))
    IN  IF kept = <<>> THEN <<W("data")>>
        ELSE [k \in 1..Len(kept) |-> [kept[k] EXCEPT !.w = lower(@)]]

RECURSIVE join(_)
join(cols) == IF cols = <<>> THEN <<>> ELSE Head(cols) \o join(Tail(cols))

\* mutant: the file name leaves the index out
table_filename_plain(headers, context, index) ==
    [index |-> 0,
     base |-> IF context # <<>> THEN slugify(context) ELSE <<>>,
     hdr |-> slugify(join(SubSeq(headers, 1, IF Len(headers) < 3 THEN Len(headers) ELSE 3)))]
\* TableBlock.filename
table_filename(headers, context, index) ==
    [index |-> index,
     base |-> IF context # <<>> THEN slugify(context) ELSE <<>>,
     hdr |-> slugify(join(SubSeq(headers, 1, IF Len(headers) < 3 THEN Len(headers) ELSE 3)))]
\* TableBlock.write_csv: the file it writes
table_write_csv(headers, rows) == [header |-> headers, rows |-> rows]

\* NumericMatrixBlock.filename
matrix_filename(context, index) ==
    [index |-> index,
     base |-> IF context # <<>> THEN slugify(context) ELSE <<W("matrix")>>,
     hdr |-> <<W("matrix")>>]
\* mutant: the column count is taken from the first row
matrix_write_first(rows) ==
    LET ncols == IF rows = <<>> THEN 0 ELSE Len(rows[1])
    IN  [header |-> [k \in 1..ncols |-> <<Col(k)>>],
         rows |-> [r \in 1..Len(rows) |->
                      IF Len(rows[r]) < ncols
                      THEN rows[r] \o [k \in 1..(ncols - Len(rows[r])) |-> EMPTY]
                      ELSE SubSeq(rows[r], 1, ncols)]]
\* NumericMatrixBlock.write_csv: the file it writes
matrix_write_csv(rows) ==
    LET ncols == IF rows = <<>> THEN 0 ELSE MaxOf({Len(rows[r]) : r \in 1..Len(rows)})
    IN  [header |-> [k \in 1..ncols |-> <<Col(k)>>],
         rows |-> [r \in 1..Len(rows) |->
                      IF Len(rows[r]) < ncols
                      THEN rows[r] \o [k \in 1..(ncols - Len(rows[r])) |-> EMPTY]
                      ELSE rows[r]]]

\* 'analysis' in stripped.lower()
ANALYSIS(line) == \E k \in 1..Len(line) : line[k] = W("analysis")
OP_CONTEXT == Words(<<"operating", "point", "information">>)
OP_INFO(line) == PatSearch(line, <<"operating", "point", "information">>)
alpha(tok) == tok = GAP \/ (tok.t = "w" /\ tok.w \in ALPHA)

RECURSIVE lstrip_gaps(_)
lstrip_gaps(toks) ==
    IF toks # <<>> /\ Head(toks) = GAP THEN lstrip_gaps(Tail(toks)) ELSE toks

\* re.search(r'([A-Za-z ]+analysis)', stripped).group(1).strip(), <<>> without
\* a match: the leftmost start from which letters and blanks lead to an
\* `analysis` that something precedes, then as far as they lead to one
context_match(line) ==
    LET A == {a \in 2..Len(line) : line[a] = W("analysis")}
        run_start(a) == MinOf({b \in 1..a : \A k \in b..(a - 1) : alpha(line[k])})
        s0 == MinOf({run_start(a) : a \in A})
        e0 == MaxOf({a \in A : a >= s0 /\ \A k \in s0..(a - 1) : alpha(line[k])})
    IN  IF A = {} THEN <<>> ELSE lstrip_gaps(SubSeq(line, s0, e0))

\* the status lines skipped after `operating point information` (217-228)
RECURSIVE skip_status(_, _)
skip_status(ls, j) ==
    IF j < Len(ls) /\ ~has_eq(At(ls, j)) /\ ~starts_with(At(ls, j), "+") /\ At(ls, j) # <<>>
    THEN skip_status(ls, j + 1)
    ELSE j

\* values[name] = val on an insertion-ordered dict
dict_set(values, name, val) ==
    CHOOSE d \in
        { IF \E k \in 1..Len(v) : v[k].name = name
          THEN [k \in 1..Len(v) |->
                   IF v[k].name = name THEN [name |-> name, val |-> val] ELSE v[k]]
          ELSE Append(v, [name |-> name, val |-> val]) : v \in {values} } : TRUE

\* the part of a token that [\-+0-9\.EeDd]+ matches at its start, <<>> if none
value_prefix(tok) ==
    IF tok.t = "n" THEN <<tok>> ELSE IF tok = W("dc") THEN <<W("d")>> ELSE <<>>
name_like(tok) == tok.t \in {"w", "n"} /\ tok.w \notin {"=", "(", ")", "******", "*****"}

\* pair_re.finditer(s): the `name = value` pairs of a line from token k on
RECURSIVE pairs_from(_, _)
pairs_from(toks, k) ==
    IF k + 2 > Len(toks) THEN <<>>
    ELSE IF name_like(toks[k]) /\ toks[k + 1] = W("=") /\ value_prefix(toks[k + 2]) # <<>>
    THEN <<[name |-> toks[k], val |-> value_prefix(toks[k + 2])[1]]>>
         \o pairs_from(toks, k + 3)
    ELSE pairs_from(toks, k + 1)

RECURSIVE set_all(_, _, _)
set_all(values, found, k) ==
    IF k > Len(found) THEN values
    ELSE set_all(dict_set(values, found[k].name, parse_number(found[k].val)), found, k + 1)

\* parse_operating_point(lines, start_idx): [values, i]
RECURSIVE parse_operating_point(_, _, _)
parse_operating_point(ls, k, values) ==
    LET toks == ws_split(At(ls, k))
        body == IF starts_with(toks, "+") THEN Tail(toks) ELSE toks
        found == pairs_from(body, 1)
    IN  IF k >= Len(ls) THEN [values |-> values, i |-> k]
        ELSE IF toks = <<>> THEN [values |-> values, i |-> k]
        ELSE IF starts_with(toks, "******") \/ starts_with(toks, "*****") \/ ANALYSIS(toks)
        THEN [values |-> values, i |-> k]
        ELSE IF found # <<>> THEN parse_operating_point(ls, k + 1, set_all(values, found, 1))
        ELSE [values |-> values, i |-> k]

\* mutant: a run ends after its first line
numeric_run_end_one(ls, j) ==
    IF j < Len(ls) /\ tokens_from_numeric_line(At(ls, j)) # <<>> THEN j + 1 ELSE j
\* the end of the run of numeric lines that starts at line j
RECURSIVE numeric_run_end(_, _)
numeric_run_end(ls, j) ==
    IF j < Len(ls) /\ tokens_from_numeric_line(At(ls, j)) # <<>>
    THEN numeric_run_end(ls, j + 1)
    ELSE j
numeric_rows(ls, a, b) == [k \in 1..(b - a) |-> tokens_from_numeric_line(At(ls, a + k - 1))]

\* the scan of a block opened by '(' (lines 276-292): [j, rows]
RECURSIVE matrix_scan(_, _, _)
matrix_scan(ls, j, rows) ==
    LET toks == ws_split(At(ls, j))
        row == tokens_from_numeric_line(At(ls, j))
    IN  IF j >= Len(ls) THEN [j |-> j, rows |-> rows]
        ELSE IF toks = <<W(")")>> \/ starts_with(toks, "******")
                \/ (Len(toks) = 1 /\ toks[1].t = "w" /\ toks[1].w \in LETTERS)
        THEN [j |-> j + 1, rows |-> rows]
        ELSE IF row = <<>>
        THEN (IF rows # <<>> THEN [j |-> j, rows |-> rows] ELSE matrix_scan(ls, j + 1, rows))
        ELSE matrix_scan(ls, j + 1, Append(rows, matrix_add_row(row)))

NODE_VALUE == << <<W("Node")>>, <<W("Value")>> >>
UNLABELED == <<W("unlabeled")>>

\* one iteration of harvest's `while i < len(lines)` on
\* st = [i, current_context, table_index, written, files]
harvest_iteration(ls, st) ==
    LET line == At(ls, st.i)
        is_op == ~ANALYSIS(line) /\ OP_INFO(line)
        ctx == IF ANALYSIS(line)
               THEN (IF context_match(line) # <<>> THEN context_match(line)
                     ELSE st.current_context)
               ELSE IF is_op THEN OP_CONTEXT ELSE st.current_context
        s1 == [st EXCEPT !.current_context = ctx]
        wrote(name, file, nxt) ==
            [s1 EXCEPT !.written = Append(@, name),
                       !.files = (name :> file) @@ @,
                       !.table_index = @ + 1,
                       !.i = nxt]
        \* operating point information (lines 213-240)
        op == parse_operating_point(ls, skip_status(ls, st.i + 1), <<>>)
        op_next == IF st.i + 1 > op.i THEN st.i + 1 ELSE op.i
        op_rows == [k \in 1..Len(op.values) |->
                       add_row(NODE_VALUE, <<op.values[k].name, op.values[k].val>>)]
        \* a column header (lines 243-266)
        headers == split_cols(line)
        j0 == IF st.i + 1 < Len(ls) /\ At(ls, st.i + 1) = <<>> THEN st.i + 2 ELSE st.i + 1
        j1 == numeric_run_end(ls, j0)
        \* '(' (lines 271-298)
        mx == matrix_scan(ls, st.i + 1, <<>>)
        mctx == IF ctx = <<>> THEN UNLABELED ELSE ctx
        \* a plain numeric line (lines 300-325)
        toks0 == tokens_from_numeric_line(line)
        k1 == numeric_run_end(ls, st.i + 1)
        run == [k \in 1..(k1 - st.i) |-> matrix_add_row(numeric_rows(ls, st.i, k1)[k])]
    IN  IF is_op
        THEN (IF op.values # <<>>
              THEN wrote(table_filename(NODE_VALUE, ctx, st.table_index),
                         table_write_csv(NODE_VALUE, op_rows), op_next)
              ELSE [s1 EXCEPT !.i = op_next])
        ELSE IF looks_like_header(line)
        THEN (IF j0 >= Len(ls) \/ tokens_from_numeric_line(At(ls, j0)) = <<>>
              THEN [s1 EXCEPT !.i = @ + 1]
              ELSE wrote(table_filename(headers, ctx, st.table_index),
                         table_write_csv(headers,
                                         add_rows(headers, numeric_rows(ls, j0, j1), 1)),
                         j1))
        ELSE IF ws_split(line) = <<W("(")>>
        THEN (IF mx.rows # <<>>
              THEN wrote(matrix_filename(mctx, st.table_index), matrix_write_csv(mx.rows),
                         mx.j)
              ELSE [s1 EXCEPT !.i = mx.j])
        ELSE IF Len(toks0) >= 2 /\ k1 > st.i + 1
        THEN wrote(matrix_filename(mctx, st.table_index), matrix_write_csv(run), k1)
        ELSE [s1 EXCEPT !.i = @ + 1]

(***************************************************************************)
(* Documents of harvest.py: up to MaxHSegs segments.                       *)
(***************************************************************************)
HarvestSegs ==
    { << <<W("transient"), W("analysis")>> >>,
      << <<W("time"), GAP, W("va")>> >>,
      << <<>> >>,
      << <<N(1), N(2)>> >>,
      << <<N(3), ND(4), N(5)>> >>,
      << <<N(6)>> >>,
      << <<W("(")>> >>,
      << <<W(")")>> >>,
      << OP_CONTEXT >>,
      << <<W("+"), W("vdd"), W("="), N(18), W("out"), W("="), ND(9)>> >>,
      << <<W("text")>> >> }

(***************************************************************************)
(* Initial states and actions.                                             *)
(***************************************************************************)
IdleHarvestV2 ==
    /\ vt_idxs = <<>> /\ vt_refs = <<>> /\ vt_tags = <<>>
    /\ iv_idxs = <<>> /\ iv_refs = <<>> /\ iv_tags = <<>>
    /\ out_files = <<>>
IdleMapRef == refs = <<>> /\ labels = [exc |-> "", val |-> <<>>]
IdleHav ==
    /\ i = 0 /\ current_phase = NoPhase
    /\ seen_tables = [p \in PHASES |-> 0]
    /\ latest = <<>>
    /\ pending_cue = [p \in PHASES |-> NoCue]
    /\ pending_cue_line = [p \in PHASES |-> None]
    /\ csv_files = <<>> /\ meta_files = <<>>
    /\ assigned = <<>>
IdleHarvest ==
    /\ h_exists = TRUE /\ current_context = <<>> /\ table_index = 1
    /\ written = <<>> /\ h_files = <<>>
    /\ exit_status = None /\ stderr = <<>>
IdleBlock == tb_headers = <<>> /\ tb_rows = <<>> /\ tb_input = <<>> /\ tb_file = <<>>
IdleHavV2 ==
    /\ phase = NoPhase
    /\ out = [vt |-> <<>>, iv |-> <<>>]
    /\ pending_params = <<>> /\ current_cols = <<>> /\ current_rows = <<>>
    /\ vt_map = <<>> /\ iv_map = <<>>
    /\ v2_files = <<>> /\ v2_meta = <<>>

InitHarvestV2 ==
    /\ prog = "harvest_v2" /\ pc = "start"
    /\ lines \in {BuildDoc(dk, bps, 1) :
           dk \in DocKinds,
           bps \in UNION {[1..n -> BlockParams] : n \in 0..MaxBlocks}}
    /\ IdleHarvestV2 /\ IdleMapRef /\ IdleHav /\ IdleHavV2 /\ IdleHarvest /\ IdleBlock

InitMapRef ==
    /\ prog = "map_ref" /\ pc = "start"
    /\ lines = <<>>
    /\ refs \in RefLists /\ labels = [exc |-> "", val |-> <<>>]
    /\ IdleHarvestV2 /\ IdleHav /\ IdleHavV2 /\ IdleHarvest /\ IdleBlock

\* harvest_v2, the VT half (lines 117-148)
HarvestVT ==
    /\ prog = "harvest_v2" /\ pc = "start"
    /\ LET idxs == find_all_headers(lines, "VT")
           rs == refs_of(lines, idxs)
           m == map_ref_to_corner(rs)
           st == write_loop([exc |-> m.exc, files |-> out_files],
                            lines, "VT", idxs, m.val, 1)
       IN  /\ vt_idxs' = idxs /\ vt_refs' = rs /\ vt_tags' = m.val
           /\ out_files' = st.files
           /\ pc' = IF st.exc # "" THEN "crashed" ELSE "vt_done"
    /\ UNCHANGED <<prog, lines, iv_idxs, iv_refs, iv_tags, mrvars, havvars, v2vars, harvestvars>>

\* harvest_v2, the IV half (lines 150-177)
HarvestIV ==
    /\ prog = "harvest_v2" /\ pc = "vt_done"
    /\ LET idxs == find_all_headers(lines, "IV")
           rs == refs_of(lines, idxs)
           m == map_ref_to_corner(rs)
           st == write_loop([exc |-> m.exc, files |-> out_files],
                            lines, "IV", idxs, m.val, 1)
       IN  /\ iv_idxs' = idxs /\ iv_refs' = rs /\ iv_tags' = m.val
           /\ out_files' = st.files
           /\ pc' = IF st.exc # "" THEN "crashed" ELSE "done"
    /\ UNCHANGED <<prog, lines, vt_idxs, vt_refs, vt_tags, mrvars, havvars, v2vars, harvestvars>>

\* a call of map_ref_to_corner on an arbitrary list of references
MapRefCall ==
    /\ prog = "map_ref" /\ pc = "start"
    /\ labels' = map_ref_to_corner(refs)
    /\ pc' = "done"
    /\ UNCHANGED <<prog, lines, refs, hv2vars, havvars, v2vars, harvestvars>>

NextHarvestV2 == HarvestVT \/ HarvestIV
SpecHarvestV2 == InitHarvestV2 /\ [][NextHarvestV2]_vars

NextMapRef == MapRefCall
SpecMapRef == InitMapRef /\ [][NextMapRef]_vars

InitHav ==
    /\ prog = "hav" /\ pc = "scan"
    /\ lines \in DocsOf(HavSegs, MaxSegs)
    /\ IdleHav /\ IdleHarvestV2 /\ IdleMapRef /\ IdleHavV2 /\ IdleHarvest /\ IdleBlock

\* one iteration of parse_lis's `while i < n` (lines 39-122)
ParseStep ==
    /\ prog = "hav" /\ pc = "scan" /\ i < Len(lines)
    /\ LET n == Len(lines)
           line == At(lines, i)
           ph == IF VT_BANNER(line) THEN "vt"
                 ELSE IF IV_BANNER(line) THEN "iv" ELSE current_phase
           alter == ALTER_LINE(line) /\ ph \in PHASES
           cue == IF alter THEN [pending_cue EXCEPT ![ph] = alter_cue(lines, i)]
                  ELSE pending_cue
           cue_line == IF alter THEN [pending_cue_line EXCEPT ![ph] = i + 1]
                       ELSE pending_cue_line
           j == next_nonblank(lines, i + 1)
           jy == find_y(lines, j + 1)
           idx == seen_tables[ph] + 1
           block == [header |-> At(lines, j),
                     rows |-> SelectSeq(Slice(lines, j + 1, jy), HAV_NUM_ROW),
                     meta |-> [label_policy |-> POLICY,
                               phase_table_index |-> idx,
                               pre_table_alter_cue |-> cue[ph],
                               pre_table_alter_cue_line |-> cue_line[ph]]]
       IN  /\ current_phase' = ph
           /\ IF line # X_LINE \/ ph \notin PHASES
              THEN /\ i' = i + 1 /\ pc' = pc
                   /\ pending_cue' = cue /\ pending_cue_line' = cue_line
                   /\ UNCHANGED <<seen_tables, latest, assigned>>
              ELSE IF j >= n
              THEN /\ pc' = "parsed"
                   /\ pending_cue' = cue /\ pending_cue_line' = cue_line
                   /\ UNCHANGED <<i, seen_tables, latest, assigned>>
              ELSE /\ seen_tables' = [seen_tables EXCEPT ![ph] = idx]
                   /\ latest' = store(latest, <<ph, corner_of(idx)>>, block)
                   /\ assigned' = Append(assigned, [key |-> <<ph, corner_of(idx)>>,
                                                    block |-> block])
                   /\ pending_cue' = consume_cue(cue, ph)
                   /\ pending_cue_line' = [cue_line EXCEPT ![ph] = None]
                   /\ i' = jy + 1 /\ pc' = pc
    /\ UNCHANGED <<prog, lines, csv_files, meta_files, hv2vars, mrvars, v2vars, harvestvars>>

\* the loop condition fails: return latest (line 124)
ParseReturn ==
    /\ prog = "hav" /\ pc = "scan" /\ i >= Len(lines)
    /\ pc' = "parsed"
    /\ UNCHANGED <<prog, lines, havvars, hv2vars, mrvars, v2vars, harvestvars>>

\* write_outputs(latest, outdir) (lines 126-168)
WriteOutputs ==
    /\ prog = "hav" /\ pc = "parsed"
    /\ LET st == write_targets([csv |-> csv_files, meta |-> meta_files], latest, 1)
       IN  csv_files' = st.csv /\ meta_files' = st.meta
    /\ pc' = "done"
    /\ UNCHANGED <<prog, lines, i, current_phase, seen_tables, latest, pending_cue,
                   pending_cue_line, assigned, hv2vars, mrvars, v2vars, harvestvars>>

NextHav == ParseStep \/ ParseReturn \/ WriteOutputs

\* hav.py on the documents with .alter lines
InitHavCues ==
    /\ prog = "hav" /\ pc = "scan"
    /\ lines \in DocsOf(HavCueSegs, MaxCueSegs)
    /\ IdleHav /\ IdleHarvestV2 /\ IdleMapRef /\ IdleHavV2 /\ IdleHarvest /\ IdleBlock
SpecHavCues == InitHavCues /\ [][NextHav]_vars

\* hav.py on the documents made line by line
InitHavLines ==
    /\ prog = "hav" /\ pc = "scan"
    /\ lines \in HavLineDocs
    /\ IdleHav /\ IdleHarvestV2 /\ IdleMapRef /\ IdleHavV2 /\ IdleHarvest /\ IdleBlock
SpecHavLines == InitHavLines /\ [][NextHav]_vars
SpecHav == InitHav /\ [][NextHav]_vars

InitHavV2 ==
    /\ prog = "hav_v2" /\ pc = "scan"
    /\ lines \in DocsOf(V2Segs, MaxSegs)
    /\ i = 0
    /\ IdleHavV2 /\ IdleHav /\ IdleHarvestV2 /\ IdleMapRef /\ IdleHarvest /\ IdleBlock

V2State ==
    [out |-> out, phase |-> phase, pending_params |-> pending_params,
     current_cols |-> current_cols, current_rows |-> current_rows, exc |-> ""]
V2Set(st) ==
    /\ out' = st.out /\ phase' = st.phase /\ pending_params' = st.pending_params
    /\ current_cols' = st.current_cols /\ current_rows' = st.current_rows

\* one iteration of hav_v2.parse_lis's main loop (lines 84-171)
V2ParseStep ==
    /\ prog = "hav_v2" /\ pc = "scan" /\ i < Len(lines)
    /\ \E r \in {parse_iteration(lines, i, V2State)} :
           /\ V2Set(r.st)
           /\ i' = r.i
           /\ pc' = IF r.st.exc # "" THEN "crashed" ELSE pc
    /\ UNCHANGED <<prog, lines, vt_map, iv_map, v2_files, v2_meta, havrest, hv2vars, mrvars,
                   harvestvars>>

\* the final flush_table() and return (lines 173-175)
V2ParseReturn ==
    /\ prog = "hav_v2" /\ pc = "scan" /\ i >= Len(lines)
    /\ LET st == flush_table(V2State)
       IN  /\ V2Set(st)
           /\ pc' = IF st.exc # "" THEN "crashed" ELSE "parsed"
    /\ UNCHANGED <<prog, lines, i, vt_map, iv_map, v2_files, v2_meta, havrest, hv2vars,
                   mrvars, harvestvars>>

\* main after parse_lis: the corner mapping and the writes (lines 285-310)
V2Main ==
    /\ prog = "hav_v2" /\ pc = "parsed"
    /\ LET vm == choose_corners_by_order_and_checks(out.vt, "vt")
           im == choose_corners_by_order_and_checks(out.iv, "iv")
       IN  /\ vt_map' = vm /\ iv_map' = im
           /\ v2_files' = write_phase(write_phase(v2_files, "vt", vm), "iv", im)
           /\ v2_meta' = [vt_temp_info |-> vm.temp_info,
                          vt_temp_warning |-> vm.temp_warning,
                          vt_voltage_warning |-> vm.vt_warning,
                          iv_temp_info |-> im.temp_info,
                          iv_temp_warning |-> im.temp_warning]
    /\ pc' = "done"
    /\ UNCHANGED <<prog, lines, i, phase, out, pending_params, current_cols, current_rows,
                   havrest, hv2vars, mrvars, harvestvars>>

NextHavV2 == V2ParseStep \/ V2ParseReturn \/ V2Main
SpecHavV2 == InitHavV2 /\ [][NextHavV2]_vars

\* choose_corners_by_order_and_checks called on a list of tables: the k-th
\* table has the one row k k and a temperature or none
CornerTable(k, t) ==
    [cols |-> <<W("time"), W("pulldown_on")>>,
     rows |-> << <<N(k), N(k)>> >>,
     params |-> IF t = None THEN <<>> ELSE put(<<>>, "temp", t)]
TableLists ==
    UNION {{[k \in 1..n |-> CornerTable(k, ts[k])] : ts \in [1..n -> TEMPS \cup {None}]} :
           n \in 0..MaxTables}
InitCorners ==
    /\ prog = "choose_corners" /\ pc = "start"
    /\ lines = <<>> /\ i = 0
    /\ phase = NoPhase
    /\ \E ph \in PHASES : \E tl \in TableLists :
         out = [p \in PHASES |-> IF p = ph THEN tl ELSE <<>>]
    /\ pending_params = <<>> /\ current_cols = <<>> /\ current_rows = <<>>
    /\ vt_map = <<>> /\ iv_map = <<>>
    /\ v2_files = <<>> /\ v2_meta = <<>>
    /\ IdleHav /\ IdleHarvestV2 /\ IdleMapRef /\ IdleHarvest /\ IdleBlock
\* the two calls of main (lines 285-286)
ChooseCorners ==
    /\ prog = "choose_corners" /\ pc = "start"
    /\ vt_map' = choose_corners_by_order_and_checks(out.vt, "vt")
    /\ iv_map' = choose_corners_by_order_and_checks(out.iv, "iv")
    /\ pc' = "done"
    /\ UNCHANGED <<prog, lines, i, phase, out, pending_params, current_cols, current_rows,
                   v2_files, v2_meta, havrest, hv2vars, mrvars, harvestvars>>
NextCorners == ChooseCorners
SpecCorners == InitCorners /\ [][NextCorners]_vars

\* hav_v2 on the documents with temperatures
InitHavV2Temps ==
    /\ prog = "hav_v2" /\ pc = "scan"
    /\ lines \in DocsOf(TempBlocks, MaxTempBlocks)
    /\ i = 0
    /\ IdleHavV2 /\ IdleHav /\ IdleHarvestV2 /\ IdleMapRef /\ IdleHarvest /\ IdleBlock
SpecHavV2Temps == InitHavV2Temps /\ [][NextHavV2]_vars

\* the two implementations of the positional fallback, side by side: a call
\* of harvest_v2.map_ref_to_corner, or a run of hav_v2
InitFallback == InitMapRef \/ InitHavV2
NextFallback == MapRefCall \/ V2ParseStep \/ V2ParseReturn \/ V2Main
SpecFallback == InitFallback /\ [][NextFallback]_vars

(***************************************************************************)
(* harvest.py: main and harvest.                                           *)
(***************************************************************************)
InitHarvest ==
    /\ prog = "harvest" /\ pc = "start"
    /\ \/ h_exists = TRUE /\ lines \in DocsOf(HarvestSegs, MaxHSegs)
       \/ h_exists = FALSE /\ lines = <<>>
    /\ current_context = <<>> /\ table_index = 1
    /\ written = <<>> /\ h_files = <<>>
    /\ exit_status = None /\ stderr = <<>>
    /\ IdleHarvestV2 /\ IdleMapRef /\ IdleHav /\ IdleHavV2 /\ IdleBlock

\* main up to the call of harvest (lines 334-344) and harvest's start (194-201)
HarvestMain ==
    /\ prog = "harvest" /\ pc = "start"
    /\ IF h_exists
       THEN pc' = "scan" /\ UNCHANGED <<exit_status, stderr>>
       ELSE /\ stderr' = Append(stderr, "ERROR: Input file not found")
            /\ exit_status' = 1
            /\ pc' = "exited"
    /\ UNCHANGED <<prog, lines, h_exists, current_context, table_index, written, h_files,
                   tbvars, hv2vars, mrvars, havvars, v2vars>>

\* one iteration of harvest's main loop (lines 203-327)
HarvestStep ==
    /\ prog = "harvest" /\ pc = "scan" /\ i < Len(lines)
    /\ \E st \in {harvest_iteration(lines, [i |-> i, current_context |-> current_context,
                                              table_index |-> table_index,
                                              written |-> written, files |-> h_files])} :
           /\ i' = st.i /\ current_context' = st.current_context
           /\ table_index' = st.table_index
           /\ written' = st.written /\ h_files' = st.files
    /\ UNCHANGED <<prog, pc, lines, h_exists, exit_status, stderr, tbvars, havrest, hv2vars,
                   mrvars, v2vars>>

\* harvest returns and main reports (lines 329, 346-351); the run ends
HarvestReturn ==
    /\ prog = "harvest" /\ pc = "scan" /\ i >= Len(lines)
    /\ stderr' = Append(stderr, IF written = <<>> THEN "No tables found." ELSE "Wrote")
    /\ exit_status' = 0
    /\ pc' = "exited"
    /\ UNCHANGED <<prog, lines, h_exists, current_context, table_index, written, h_files,
                   tbvars, hv2vars, mrvars, havvars, v2vars>>

NextHarvest == HarvestMain \/ HarvestStep \/ HarvestReturn
SpecHarvest == InitHarvest /\ [][NextHarvest]_vars

\* the three scans side by side, each on its documents of up to MaxScanSegs
\* segments; a run is never suspended, so every enabled step is taken
ScanSegs ==
    { << <<W("time"), GAP, W("va")>> >>,
      << <<W("time"), GAP, W("va")>>, <<N(1), N(2)>> >>,
      << <<N(1), N(2)>> >>,
      << <<W("(")>> >>,
      << OP_CONTEXT, <<W("+"), W("vdd"), W("="), N(18), W("out"), W("="), ND(9)>> >> }
InitScans ==
    \/ /\ prog = "harvest" /\ pc = "start"
       /\ h_exists = TRUE /\ lines \in DocsOf(ScanSegs, MaxScanSegs)
       /\ current_context = <<>> /\ table_index = 1
       /\ written = <<>> /\ h_files = <<>>
       /\ exit_status = None /\ stderr = <<>>
       /\ IdleHarvestV2 /\ IdleMapRef /\ IdleHav /\ IdleHavV2 /\ IdleBlock
    \/ /\ prog = "hav" /\ pc = "scan"
       /\ lines \in DocsOf(HavSegs, MaxScanSegs)
       /\ IdleHav /\ IdleHarvestV2 /\ IdleMapRef /\ IdleHavV2 /\ IdleHarvest /\ IdleBlock
    \/ /\ prog = "hav_v2" /\ pc = "scan"
       /\ lines \in DocsOf(V2Segs, MaxScanSegs)
       /\ i = 0
       /\ IdleHavV2 /\ IdleHav /\ IdleHarvestV2 /\ IdleMapRef /\ IdleHarvest /\ IdleBlock
NextScans ==
    \/ HarvestMain \/ HarvestStep \/ HarvestReturn
    \/ ParseStep \/ ParseReturn \/ WriteOutputs
    \/ V2ParseStep \/ V2ParseReturn \/ V2Main
SpecScans == InitScans /\ [][NextScans]_vars /\ WF_vars(NextScans)

\* the two sentinel harvesters side by side: a run of hav.py or of hav_v2
InitSentinel == InitHav \/ InitHavV2
NextSentinel ==
    ParseStep \/ ParseReturn \/ WriteOutputs \/ V2ParseStep \/ V2ParseReturn \/ V2Main
SpecSentinel == InitSentinel /\ [][NextSentinel]_vars

(***************************************************************************)
(* harvest_v2 on documents of header lines, text lines and numeric rows    *)
(* in any order, headers without rows included.                            *)
(***************************************************************************)
INDEX_VT == [kind |-> "VT", index |-> TRUE]
RowsSegs ==
    { <<HeaderLine(INDEX_VT)>>,
      << <<W("text")>> >>,
      <<RowLine(INDEX_VT, 1, 1)>> }
InitHarvestV2Rows ==
    /\ prog = "harvest_v2" /\ pc = "start"
    /\ lines \in DocsOf(RowsSegs, MaxSegs)
    /\ IdleHarvestV2 /\ IdleMapRef /\ IdleHav /\ IdleHavV2 /\ IdleHarvest /\ IdleBlock
SpecHarvestV2Rows == InitHarvestV2Rows /\ [][NextHarvestV2]_vars

(***************************************************************************)
(* A TableBlock or a NumericMatrixBlock driven directly: add_row for each  *)
(* row of tb_input in turn, then write_csv.                                *)
(***************************************************************************)
RowTokens == {N(1), ND(2), W("vdd")}
RowsIn == UNION {[1..n -> RowTokens] : n \in 0..MaxRowLen}
RowLists == UNION {[1..n -> RowsIn] : n \in 0..MaxRowsIn}
HeaderNames == <<"time", "va", "vb", "vc", "vd", "ve">>
HeadersIn == {[k \in 1..n |-> <<W(HeaderNames[k])>>] : n \in 0..MaxHeaders}

InitBlocks ==
    /\ pc = "rows"
    /\ \/ prog = "TableBlock" /\ tb_headers \in HeadersIn
       \/ prog = "NumericMatrixBlock" /\ tb_headers = <<>>
    /\ tb_input \in RowLists
    /\ tb_rows = <<>> /\ tb_file = <<>>
    /\ lines = <<>>
    /\ IdleHarvestV2 /\ IdleMapRef /\ IdleHav /\ IdleHavV2 /\ IdleHarvest

\* TableBlock.add_row (lines 99-107)
TableAddRow ==
    /\ prog = "TableBlock" /\ pc = "rows" /\ Len(tb_rows) < Len(tb_input)
    /\ tb_rows' = Append(tb_rows, add_row(tb_headers, tb_input[Len(tb_rows) + 1]))
    /\ UNCHANGED <<prog, pc, lines, tb_headers, tb_input, tb_file, hvars, hv2vars, mrvars,
                   havvars, v2vars>>

\* TableBlock.write_csv (lines 118-126)
TableWriteCsv ==
    /\ prog = "TableBlock" /\ pc = "rows" /\ Len(tb_rows) = Len(tb_input)
    /\ tb_file' = table_write_csv(tb_headers, tb_rows)
    /\ pc' = "written"
    /\ UNCHANGED <<prog, lines, tb_headers, tb_rows, tb_input, hvars, hv2vars, mrvars,
                   havvars, v2vars>>

\* NumericMatrixBlock.add_row (lines 135-137)
MatrixAddRow ==
    /\ prog = "NumericMatrixBlock" /\ pc = "rows" /\ Len(tb_rows) < Len(tb_input)
    /\ tb_rows' = Append(tb_rows, matrix_add_row(tb_input[Len(tb_rows) + 1]))
    /\ UNCHANGED <<prog, pc, lines, tb_headers, tb_input, tb_file, hvars, hv2vars, mrvars,
                   havvars, v2vars>>

\* NumericMatrixBlock.write_csv (lines 143-156)
MatrixWriteCsv ==
    /\ prog = "NumericMatrixBlock" /\ pc = "rows" /\ Len(tb_rows) = Len(tb_input)
    /\ tb_file' = matrix_write_csv(tb_rows)
    /\ pc' = "written"
    /\ UNCHANGED <<prog, lines, tb_headers, tb_rows, tb_input, hvars, hv2vars, mrvars,
                   havvars, v2vars>>

NextBlocks == TableAddRow \/ TableWriteCsv \/ MatrixAddRow \/ MatrixWriteCsv
SpecBlocks == InitBlocks /\ [][NextBlocks]_vars

(***************************************************************************)
(* Claims.                                                                 *)
(***************************************************************************)
PLAIN_VT == [kind |-> "VT", index |-> FALSE]
VT_FILES == <<"vt_fall_pd_on", "vt_fall_pd_off", "vt_rise_pu_on", "vt_rise_pu_off">>
\* the (time, value) pairs of the c-th data column of block b
BlockData(b, c) == [j \in 1..3 |-> <<N(j), N(10 * b + c + 1)>>]
Holds(tag, b) ==
    \A c \in 1..4 :
        /\ <<VT_FILES[c], tag>> \in DOMAIN out_files
        /\ out_files[<<VT_FILES[c], tag>>] = BlockData(b, c)
IsScenario ==
    \E g1 \in Gaps, g2 \in Gaps, g3 \in Gaps :
        lines = BuildDoc(PLAIN_VT, <<[key |-> "vpower", val |-> 18, gap |-> g1],
                                     [key |-> "vpower", val |-> 33, gap |-> g2],
                                     [key |-> "vpower", val |-> 25, gap |-> g3]>>, 1)

\* C1: three VT blocks with header `time pulldown_on pulldown_off pullup_on
\* pullup_off`, preceded by vpower = 1.8, 3.3 and 2.5 in that order, give a
\* min output holding the 1.8 table, a typ output holding the 2.5 table and
\* a max output holding the 3.3 table, at every distance between the blocks.
C1_ScenarioCorners ==
    (prog = "harvest_v2" /\ pc \in {"vt_done", "done"} /\ IsScenario)
        => (Holds("min", 1) /\ Holds("typ", 3) /\ Holds("max", 2))

\* the matches of `key = number` in a window, and the value of the last one
matches(win, key) ==
    {k \in 1..(Len(win) - 2) : win[k] = W(key) /\ win[k + 1] = W("=") /\ win[k + 2].t = "n"}
MostRecent(win, key) == win[MaxOf(matches(win, key)) + 2].v
MostRecentWins(idxs, rs) ==
    \A k \in 1..Len(idxs) :
        LET win == window_text(lines, idxs[k], BEFORE)
            np == Cardinality(matches(win, "power_cl_ref"))
            nv == Cardinality(matches(win, "vpower"))
        IN  /\ np >= 2 => rs[k] = MostRecent(win, "power_cl_ref")
            /\ (np = 0 /\ nv >= 2) => rs[k] = MostRecent(win, "vpower")

\* C2: when several assignments of the same reference key lie inside the
\* lookback window of a header, extract_nearby_ref returns the value of the
\* assignment closest before the header.
C2_MostRecentWins ==
    (prog = "harvest_v2" /\ pc \in {"vt_done", "done"})
        => (MostRecentWins(vt_idxs, vt_refs)
            /\ (pc = "done" => MostRecentWins(iv_idxs, iv_refs)))

Distinct(rs) == {rs[k] : k \in 1..Len(rs)} \ {None}
Called == prog = "map_ref" /\ pc = "done"
IsCorner(l) == l \in {"min", "typ", "max"}

\* C3: for every list with three or more distinct reference values,
\* map_ref_to_corner returns (without raising) one label in {min, typ, max}
\* per table, `min` for the smallest value, `max` for the largest, and for
\* every other value a label that is not the corner of the farther extreme.
C3_ThreeOrMore ==
    (Called /\ Cardinality(Distinct(refs)) >= 3)
        => /\ labels.exc = ""
           /\ Len(labels.val) = Len(refs)
           /\ \A k \in 1..Len(refs) :
                LET lo == MinOf(Distinct(refs))
                    hi == MaxOf(Distinct(refs))
                IN  /\ IsCorner(labels.val[k])
                    /\ refs[k] = lo => labels.val[k] = "min"
                    /\ refs[k] = hi => labels.val[k] = "max"
                    /\ (refs[k] # None /\ refs[k] - lo < hi - refs[k])
                          => labels.val[k] # "max"
                    /\ (refs[k] # None /\ refs[k] - lo > hi - refs[k])
                          => labels.val[k] # "min"

\* C4: three tables with three distinct reference values are labelled
\* lowest = min, middle = typ, highest = max in each of the six orders.
C4_ThreeDistinct ==
    (Called /\ Len(refs) = 3 /\ Cardinality(Distinct(refs)) = 3)
        => /\ labels.exc = ""
           /\ \A k \in 1..3 :
                labels.val[k] =
                    At(CORNERS, Cardinality({x \in Distinct(refs) : x < refs[k]}))
C4_Witness ==
    Called /\ refs = <<3, 1, 2>> /\ labels.val = <<"max", "min", "typ">>

\* C5 as first stated: as soon as one table of a group has no reference
\* value, no table of the group is labelled by reference rank; the whole
\* group is labelled by the next layer, position (checked on the first
\* three positions, typ, min, max).
C5_AllOrNothing ==
    (Called /\ \E k \in 1..Len(refs) : refs[k] = None)
        => /\ labels.exc = ""
           /\ \A k \in 1..Len(refs) : k <= 3 => labels.val[k] = ORDER[k]

RankLabel(r, D) ==
    IF Cardinality(D) = 1 THEN "typ"
    ELSE IF Cardinality(D) = 2 THEN (IF r = MinOf(D) THEN "min" ELSE "max")
    ELSE At(CORNERS, Cardinality({x \in D : x < r}))
PositionLabel(k) == IF k <= 3 THEN ORDER[k] ELSE "typ"

\* C5 (amended): map_ref_to_corner decides per table, not per group.  With
\* at most three distinct values in the group, a table that has a reference
\* value is labelled by the rank of its value and a table that has none by
\* its position (typ, min, max, then typ), whatever the other tables have;
\* with four or more distinct values the call raises IndexError.
C5_PerTable ==
    Called
        => IF Cardinality(Distinct(refs)) >= 4
           THEN labels.exc = "IndexError"
           ELSE /\ labels.exc = ""
                /\ Len(labels.val) = Len(refs)
                /\ \A k \in 1..Len(refs) :
                     labels.val[k] = IF refs[k] = None THEN PositionLabel(k)
                                     ELSE RankLabel(refs[k], Distinct(refs))
C5_Witness ==
    Called /\ refs = <<1, None, 3>> /\ labels.val = <<"min", "min", "max">>

NoRefs == \A k \in 1..Len(refs) : refs[k] = None
V2Done == prog = "hav_v2" /\ pc = "done"
NoTemps(tables) == \A k \in 1..Len(tables) : temp_of(tables[k]) = None
\* the CSV file of a parsed table: its header row, then its rows
FileOf(tbl) == <<tbl.cols>> \o tbl.rows
CsvKey(ph, c) == <<"csv", ph, c>>
\* the last table of the list that carries label c (the one a write loop
\* that overwrites leaves in c's output), 0 if there is none
LastWith(ls, c) ==
    LET S == {k \in 1..Len(ls) : ls[k] = c}
    IN  IF S = {} THEN 0 ELSE MaxOf(S)

\* C6 as first stated: without reference values and temperatures the 1st
\* table is typ, the 2nd min, the 3rd and every later one max, so that of
\* k >= 3 tables the last one ends up in the max output; in
\* map_ref_to_corner and in hav_v2's choose_corners_by_order_and_checks.
C6_ThirdAndLaterMax ==
    /\ (Called /\ NoRefs)
          => /\ labels.exc = ""
             /\ \A k \in 1..Len(refs) :
                  labels.val[k] = IF k = 1 THEN "typ" ELSE IF k = 2 THEN "min" ELSE "max"
    /\ V2Done
          => \A ph \in PHASES :
               (NoTemps(out[ph]) /\ Len(out[ph]) >= 3)
                  => /\ CsvKey(ph, "max") \in DOMAIN v2_files
                     /\ v2_files[CsvKey(ph, "max")] = FileOf(out[ph][Len(out[ph])])

\* C6 (amended): without reference values and temperatures the 1st table is
\* typ, the 2nd min and the 3rd max.  map_ref_to_corner labels the 4th and
\* every later table typ, so of k >= 3 tables the last one labelled max is
\* the 3rd; hav_v2 maps only the first three tables of a phase and drops the
\* later ones, so its typ, min and max outputs are the 1st, 2nd and 3rd
\* table.
C6_FirstThree ==
    /\ (Called /\ NoRefs)
          => /\ labels.exc = ""
             /\ Len(labels.val) = Len(refs)
             /\ \A k \in 1..Len(refs) : labels.val[k] = PositionLabel(k)
             /\ Len(refs) >= 3 => LastWith(labels.val, "max") = 3
    /\ V2Done
          => \A ph \in PHASES :
               NoTemps(out[ph])
                  => \A k \in 1..3 :
                       IF k <= Len(out[ph])
                       THEN /\ CsvKey(ph, ORDER[k]) \in DOMAIN v2_files
                            /\ v2_files[CsvKey(ph, ORDER[k])] = FileOf(out[ph][k])
                       ELSE CsvKey(ph, ORDER[k]) \notin DOMAIN v2_files
C6_Witness ==
    /\ V2Done /\ NoTemps(out.vt)
    /\ Len(out.vt) = 4 /\ out.vt[4] # out.vt[3]
    /\ v2_files[CsvKey("vt", "max")] = FileOf(out.vt[3])

VTB == <<W("v-t"), W("curve"), W("simulations")>>
IVB == <<W("i-v"), W("curve"), W("simulations")>>
TABLE_A == <<X_LINE, <<W("time"), W("va")>>, <<N(1), N(2)>>, Y_LINE>>
\* the entries of the history that belong to phase p, among the first k
OfPhase(p, k) == {j \in 1..k : assigned[j].key[1] = p}

\* C7: in hav.py, per phase, the n-th table stored while that phase is
\* current is labelled min for n = 1, max for n = 2 and typ for n >= 3; the
\* count of a phase is the number of tables stored for that phase so far,
\* whatever happened in the other phase in between.
C7_BySequence ==
    prog = "hav"
        => /\ \A k \in 1..Len(assigned) :
                LET n == Cardinality(OfPhase(assigned[k].key[1], k))
                IN  /\ assigned[k].key[1] \in PHASES
                    /\ assigned[k].key[2] =
                          IF n = 1 THEN "min" ELSE IF n = 2 THEN "max" ELSE "typ"
                    /\ assigned[k].block.meta.phase_table_index = n
           /\ \A p \in PHASES : seen_tables[p] = Cardinality(OfPhase(p, Len(assigned)))
\* vt table, iv table, vt table: the second vt table is the phase's 2nd
C7_Witness ==
    /\ prog = "hav" /\ pc = "parsed"
    /\ lines = <<VTB>> \o TABLE_A \o <<IVB>> \o TABLE_A \o <<VTB>> \o TABLE_A
    /\ seen_tables = [p \in PHASES |-> IF p = "vt" THEN 2 ELSE 1]
    /\ assigned[3].key = <<"vt", "max">>

\* C8: after the scan, the table stored under each (phase, corner) is the
\* last one, in document order, that was assigned that key, and a key holds
\* a table exactly when some table was assigned to it.
C8_LastWriterWins ==
    (prog = "hav" /\ pc \in {"parsed", "done"})
        => /\ DOMAIN latest = {assigned[k].key : k \in 1..Len(assigned)}
           /\ \A key \in DOMAIN latest :
                LET last == MaxOf({k \in 1..Len(assigned) : assigned[k].key = key})
                IN  latest[key] = assigned[last].block
\* four vt tables: the typ slot holds the fourth, the third was discarded
C8_Witness ==
    /\ prog = "hav" /\ pc = "parsed"
    /\ Len(assigned) = 4
    /\ assigned[3].key = <<"vt", "typ">> /\ assigned[4].key = <<"vt", "typ">>
    /\ assigned[3].block # assigned[4].block
    /\ latest[<<"vt", "typ">>] = assigned[4].block

SixPairs == {<<p, c>> : p \in {"vt", "iv"}, c \in {"min", "typ", "max"}}

\* C9: write_outputs writes one CSV and one metadata file for each of the
\* six (phase, corner) pairs and no other; a pair with no table gets the
\* stub whose only row is NO_DATA_FOUND, a pair with a table its header
\* followed by its rows.
C9_SixOutputs ==
    (prog = "hav" /\ pc = "done")
        => /\ DOMAIN csv_files = SixPairs
           /\ DOMAIN meta_files = SixPairs
           /\ \A key \in SixPairs :
                IF key \in DOMAIN latest
                THEN /\ csv_files[key] = <<latest[key].header>> \o latest[key].rows
                     /\ meta_files[key].rows = Len(latest[key].rows)
                ELSE /\ csv_files[key] = << <<W("NO_DATA_FOUND")>> >>
                     /\ meta_files[key].rows = 0
                     /\ meta_files[key].metadata.missing
C9_Witness ==
    /\ prog = "hav" /\ pc = "done"
    /\ DOMAIN latest = {<<"vt", "min">>}
    /\ csv_files[<<"iv", "typ">>] = << <<W("NO_DATA_FOUND")>> >>
    /\ Len(csv_files[<<"vt", "min">>]) = 2

IsTable == prog = "TableBlock"
IsMatrix == prog = "NumericMatrixBlock"
\* row r of the input, cut or padded with '' to n fields
Fitted(row, n) == [k \in 1..n |-> IF k <= Len(row) THEN row[k] ELSE EMPTY]
Normalized(row) == [k \in 1..Len(row) |-> parse_number(row[k])]

\* C11 as first stated: TableBlock.add_row appends, for a header of N
\* columns and a row of M fields, exactly N fields: the first min(M, N)
\* input fields in order, then N - M empty strings when M < N.
C11_RowFitsHeader ==
    IsTable => \A r \in 1..Len(tb_rows) :
                  tb_rows[r] = Fitted(tb_input[r], Len(tb_headers))

\* C11 (amended): the appended row has exactly N fields: the first
\* min(M, N) input fields in order, each with every D and d replaced by E,
\* then N - M empty strings when M < N; every row of a TableBlock has the
\* length of its header.
C11_RowFitsHeaderNormalized ==
    IsTable => \A r \in 1..Len(tb_rows) :
                  /\ Len(tb_rows[r]) = Len(tb_headers)
                  /\ tb_rows[r] = Normalized(Fitted(tb_input[r], Len(tb_headers)))
C11_Witness ==
    /\ IsTable /\ Len(tb_headers) = 2 /\ Len(tb_rows) = 2
    /\ tb_input = << <<N(1), ND(2), W("vdd")>>, <<N(1)>> >>
    /\ tb_rows = << <<N(1), parse_number(ND(2))>>, <<N(1), EMPTY>> >>
    /\ parse_number(ND(2)) # ND(2)

ColNames(n) == [k \in 1..n |-> <<Col(k)>>]

\* C13 as first stated: a NumericMatrixBlock is written with the header
\* col1..colN, N the length of its first row, and every written row has
\* exactly N fields (shorter rows padded, longer rows truncated).
C13_FirstRowWidth ==
    (IsMatrix /\ pc = "written" /\ tb_input # <<>>)
        => /\ tb_file.header = ColNames(Len(tb_input[1]))
           /\ \A r \in 1..Len(tb_file.rows) : Len(tb_file.rows[r]) = Len(tb_input[1])

\* C13 (amended): a NumericMatrixBlock is written with the header
\* col1..colN, N the length of its longest row, and every written row has
\* exactly N fields: the fields of the row (D and d replaced by E), then
\* empty fields; no row is truncated.
C13_WidestRowWidth ==
    (IsMatrix /\ pc = "written" /\ tb_input # <<>>)
        => LET n == MaxOf({Len(tb_input[r]) : r \in 1..Len(tb_input)})
           IN  /\ tb_file.header = ColNames(n)
               /\ Len(tb_file.rows) = Len(tb_input)
               /\ \A r \in 1..Len(tb_input) :
                    /\ Len(tb_file.rows[r]) = n
                    /\ tb_file.rows[r] = Normalized(Fitted(tb_input[r], n))
C13_Witness ==
    /\ IsMatrix /\ pc = "written"
    /\ tb_input = << <<N(1)>>, <<N(1), ND(2)>> >>
    /\ tb_file.header = ColNames(2)
    /\ tb_file.rows[1] = <<N(1), EMPTY>>

SameWidth(header, rows) == \A r \in 1..Len(rows) : Len(rows[r]) = Len(header)

\* C12: in every table recorded by hav.py's parse_lis, by hav_v2's
\* flush_table and by harvest_v2's parse_table each row has as many fields
\* as the header, whatever the number of tokens of the data lines.
C12_RowsMatchHeader ==
    /\ prog = "hav"
          => \A k \in 1..Len(assigned) :
               SameWidth(assigned[k].block.header, assigned[k].block.rows)
    /\ prog = "hav_v2"
          => \A ph \in PHASES : \A k \in 1..Len(out[ph]) :
               SameWidth(out[ph][k].cols, out[ph][k].rows)
    /\ (prog = "harvest_v2" /\ pc # "start")
          => \A k \in 1..Len(vt_idxs) :
               SameWidth(parse_table(lines, vt_idxs[k]).header,
                         parse_table(lines, vt_idxs[k]).rows)

\* C15: in hav.py a sentinel table without a numeric row is discarded: it
\* is never stored under a (phase, corner), so it replaces no stored table,
\* and the table count of a phase counts the tables with rows only.
C15_EmptyDiscarded ==
    prog = "hav"
        => /\ \A k \in 1..Len(assigned) : assigned[k].block.rows # <<>>
           /\ \A key \in DOMAIN latest : latest[key].rows # <<>>
           /\ \A p \in PHASES :
                seen_tables[p] =
                    Cardinality({k \in OfPhase(p, Len(assigned)) :
                                    assigned[k].block.rows # <<>>})

\* the header at line idx has a numeric row right after it or one line later
Followed(idx) ==
    \E j \in {idx + 1, idx + 2} : j < Len(lines) /\ is_numeric_row(At(lines, j))
HeaderTables == {f \in DOMAIN h_files : f.hdr # <<W("matrix")>>}

\* C16: a header line not followed by a numeric row (at once or after one
\* line) produces no table, and no later table's rows are attributed to it:
\* in harvest_v2 such a header gets no rows from parse_table and two
\* headers never share a row; in harvest.py no written table is empty.
C16_NoRowsNoTable ==
    /\ (prog = "harvest_v2" /\ pc # "start")
          => /\ \A k \in 1..Len(vt_idxs) :
                  ~Followed(vt_idxs[k]) => parse_table(lines, vt_idxs[k]).rows = <<>>
             /\ \A k \in 1..Len(vt_idxs) : \A m \in 1..Len(vt_idxs) :
                  (k < m /\ parse_table(lines, vt_idxs[m]).rows # <<>>)
                      => parse_table(lines, vt_idxs[k]).next <= vt_idxs[m]
    /\ prog = "harvest"
          => \A f \in HeaderTables : h_files[f].rows # <<>>

TABLE_V2 == << <<>>, <<W("time"), W("pulldown_on")>>, <<N(1), N(2)>> >>

\* C17: a document of three tables and no phase banner has all three
\* tables harvested and labelled typ, min, max in order of appearance, in
\* hav.py and in hav_v2.
C17_NoBannerThreeTables ==
    /\ (prog = "hav" /\ pc \in {"parsed", "done"}
          /\ lines = TABLE_A \o TABLE_A \o TABLE_A)
          => /\ Len(assigned) = 3
             /\ \A k \in 1..3 : assigned[k].key[2] = ORDER[k]
    /\ (V2Done /\ lines = TABLE_V2 \o TABLE_V2 \o TABLE_V2)
          => \E ph \in PHASES :
               /\ Len(out[ph]) = 3
               /\ \A k \in 1..3 : CsvKey(ph, ORDER[k]) \in DOMAIN v2_files

AllTemps(tables) == Len(tables) >= 3 /\ \A k \in 1..3 : temp_of(tables[k]) # None
Warned(meta) == "warnings" \in DOMAIN meta \/ "warning" \in DOMAIN meta

\* C18: every label that comes neither from reference rank nor from a
\* complete temperature rank carries a warning in the metadata of its
\* output: the positional labels of hav.py, of hav_v2 and of harvest_v2.
C18_PositionalWarned ==
    /\ (prog = "hav" /\ pc = "done")
          => \A key \in DOMAIN latest :
               Warned(meta_files[key]) \/ Warned(meta_files[key].metadata)
    /\ V2Done
          => /\ (out.vt # <<>> /\ ~AllTemps(out.vt)) => v2_meta.vt_temp_warning
             /\ (out.iv # <<>> /\ ~AllTemps(out.iv)) => v2_meta.iv_temp_warning
    /\ (prog = "harvest_v2" /\ pc = "done")
          => \A k \in 1..Len(vt_refs) :
               vt_refs[k] = None
                  => \E f \in DOMAIN out_files : f[1] = "warnings" /\ f[2] = vt_tags[k]

\* C19: harvest_v2 emits the four VT files of a VT table whether or not
\* its header starts with an Index column.
C19_IndexOptional ==
    (prog = "harvest_v2" /\ pc \in {"vt_done", "done"})
        => \A k \in 1..Len(vt_idxs) : \A c \in 1..4 :
             <<VT_FILES[c], vt_tags[k]>> \in DOMAIN out_files

\* C10: in hav_v2, a (phase, corner) whose table is missing or has no rows
\* still gets an output file, holding the NO_DATA_FOUND stub.
C10_StubForMissing ==
    V2Done
        => \A ph \in PHASES : \A c \in {"typ", "min", "max"} :
             LET tbl == IF ph = "vt" THEN vt_map[c] ELSE iv_map[c]
             IN  (tbl = EMPTY_TABLE \/ tbl_get(tbl, "rows") = <<>>)
                    => /\ CsvKey(ph, c) \in DOMAIN v2_files
                       /\ v2_files[CsvKey(ph, c)] = << <<W("NO_DATA_FOUND")>> >>

\* the three tables of phase ph each carry a temperature, all different
ThreeTemps(ph) ==
    /\ Len(out[ph]) = 3
    /\ \A k \in 1..3 : temp_of(out[ph][k]) # None
    /\ \A k \in 1..3 : \A m \in 1..3 : k # m => temp_of(out[ph][k]) # temp_of(out[ph][m])
Hottest(ph) == CHOOSE k \in 1..3 : \A m \in 1..3 : temp_of(out[ph][m]) <= temp_of(out[ph][k])
Coldest(ph) == CHOOSE k \in 1..3 : \A m \in 1..3 : temp_of(out[ph][k]) <= temp_of(out[ph][m])

\* C14: when the three tables of a phase carry three different temperatures,
\* the min output is the table with the highest temperature, the max output
\* the one with the lowest and the typ output the remaining one, whatever
\* their order in the document (each table's temperature being the one
\* written under its own banner).
C14_TempRanking ==
    V2Done
        => \A ph \in {"vt", "iv"} :
             ThreeTemps(ph)
                => /\ \A k \in 1..3 : out[ph][k].rows[1][1] = N(temp_of(out[ph][k]))
                   /\ v2_files[CsvKey(ph, "min")] = FileOf(out[ph][Hottest(ph)])
                   /\ v2_files[CsvKey(ph, "max")] = FileOf(out[ph][Coldest(ph)])
                   /\ \A k \in 1..3 :
                        k \notin {Hottest(ph), Coldest(ph)}
                           => v2_files[CsvKey(ph, "typ")] = FileOf(out[ph][k])
C14_Witness ==
    /\ V2Done /\ ThreeTemps("iv")
    /\ temp_of(out.iv[1]) = 85 /\ temp_of(out.iv[2]) = 0 /\ temp_of(out.iv[3]) = 25
    /\ v2_files[CsvKey("iv", "min")] = FileOf(out.iv[1])
    /\ v2_files[CsvKey("iv", "max")] = FileOf(out.iv[2])
    /\ v2_files[CsvKey("iv", "typ")] = FileOf(out.iv[3])

\* C20: a harvest.py run ends with a non-zero exit status when the input
\* path does not exist and when the scan found no table, and with status
\* zero only when at least one file was written.
C20_ExitStatus ==
    (prog = "harvest" /\ pc = "exited")
        => /\ ~h_exists => exit_status # 0
           /\ written = <<>> => exit_status # 0
           /\ exit_status = 0 => written # <<>>

\* a line of two or more tokens, every one a number
TwoOrMoreNumbers(line) ==
    LET cols == ws_split(line)
    IN  Len(cols) >= 2 /\ \A k \in 1..Len(cols) : cols[k].t = "n"
\* the state harvest's loop is in
HarvestState ==
    [i |-> i, current_context |-> current_context, table_index |-> table_index,
     written |-> written, files |-> h_files]
\* the iteration at hand is at a header line and writes its table
AtHeaderTable ==
    /\ prog = "harvest" /\ pc = "scan" /\ i < Len(lines)
    /\ looks_like_header(At(lines, i))
    /\ ~(~ANALYSIS(At(lines, i)) /\ OP_INFO(At(lines, i)))
    /\ Len(harvest_iteration(lines, HarvestState).written) > Len(written)

\* C21: no line with fewer than two numeric tokens, and no line with a token
\* that is not a number, is accepted as a data row: not by harvest_v2's
\* is_numeric_row, and not by tokens_from_numeric_line where harvest.py
\* collects the rows of a header table.
C21_TwoNumericTokens ==
    /\ prog = "harvest_v2"
          => \A k \in 0..(Len(lines) - 1) :
               is_numeric_row(At(lines, k)) => TwoOrMoreNumbers(At(lines, k))
    /\ AtHeaderTable
          => \A k \in (i + 1)..(harvest_iteration(lines, HarvestState).i - 1) :
               tokens_from_numeric_line(At(lines, k)) # <<>>
                  => TwoOrMoreNumbers(At(lines, k))

\* parse_lis is at an `x` line that opens a table
OpensTable ==
    /\ prog = "hav" /\ pc = "scan" /\ i < Len(lines)
    /\ At(lines, i) = X_LINE /\ current_phase \in PHASES
    /\ next_nonblank(lines, i + 1) < Len(lines)

\* C22: a table opened by an `x` line is closed by the first `y` line after
\* the `x` or by the end of the document: its rows are the numeric rows
\* between its header line and that `y`, the lines in between change neither
\* the phase nor a pending cue nor open another table, and the scan resumes
\* after the `y`.
C22_ClosedByFirstY ==
    [][OpensTable
          => LET y1 == find_y(lines, i + 1)
                 j == next_nonblank(lines, i + 1)
             IN  /\ i' = y1 + 1
                 /\ Len(assigned') = Len(assigned) + 1
                 /\ assigned'[Len(assigned')].block.header = At(lines, j)
                 /\ assigned'[Len(assigned')].block.rows
                       = SelectSeq(Slice(lines, j + 1, y1), HAV_NUM_ROW)
                 /\ current_phase' = current_phase
                 /\ pending_cue' = [pending_cue EXCEPT ![current_phase] = NoCue]]_vars

\* line k of the document is a numeric row
IsNum(k) == k >= 0 /\ k < Len(lines) /\ tokens_from_numeric_line(At(lines, k)) # <<>>
\* a numeric row with no numeric row before or after it
Lone(k) == IsNum(k) /\ ~IsNum(k - 1) /\ ~IsNum(k + 1)
\* the first row, of two or more tokens, of a maximal run of two or more rows
RunStart(k) ==
    IsNum(k) /\ ~IsNum(k - 1) /\ IsNum(k + 1) /\ Len(ws_split(At(lines, k))) >= 2
RunEnd(k) == CHOOSE e \in (k + 1)..Len(lines) : ~IsNum(e) /\ \A m \in k..(e - 1) : IsNum(m)
\* the iteration at hand: the lines it consumes and the matrix it writes
Scanning == prog = "harvest" /\ pc = "scan" /\ i < Len(lines)
Consumed == i..(harvest_iteration(lines, HarvestState).i - 1)
WritesMatrix ==
    LET nxt == harvest_iteration(lines, HarvestState)
    IN  /\ Len(nxt.written) = Len(written) + 1
        /\ nxt.written[Len(nxt.written)].hdr = <<W("matrix")>>
\* the matrix written holds the rows of the run that starts at line k, in
\* order, each field as parse_number returns it
HoldsRun(k) ==
    LET nxt == harvest_iteration(lines, HarvestState)
        f == nxt.files[nxt.written[Len(nxt.written)]]
    IN  /\ Len(f.rows) = RunEnd(k) - k
        /\ \A r \in 1..Len(f.rows) :
             LET toks == ws_split(At(lines, k + r - 1))
             IN  /\ Len(f.rows[r]) >= Len(toks)
                 /\ \A c \in 1..Len(toks) : f.rows[r][c] = parse_number(toks[c])
AtParen == Scanning /\ ws_split(At(lines, i)) = <<W("(")>>
AtOpPoint == Scanning /\ ~ANALYSIS(At(lines, i)) /\ OP_INFO(At(lines, i))

\* C23 as first stated: outside a header table a numeric row with no
\* numeric neighbour never produces a table, and a maximal run of two or
\* more numeric rows with no header, whose first row has two or more tokens,
\* produces exactly one matrix that holds every row of the run in order.
C23_RunsOnly ==
    Scanning
        => \A k \in Consumed :
             /\ (Lone(k) /\ ~AtHeaderTable) => ~WritesMatrix
             /\ (RunStart(k) /\ ~AtHeaderTable)
                   => /\ WritesMatrix /\ HoldsRun(k)
                      /\ harvest_iteration(lines, HarvestState).i >= RunEnd(k)
\* C23 (amended): the same outside the blocks opened by a `(` line, where one
\* numeric row is enough for a matrix, and outside the lines that the
\* operating-point branch skips, which produce no matrix at all.
C23_RunsOnlyOutsideBlocks ==
    Scanning
        => \A k \in Consumed :
             /\ (Lone(k) /\ ~AtHeaderTable /\ ~AtParen) => ~WritesMatrix
             /\ (RunStart(k) /\ ~AtHeaderTable /\ ~AtOpPoint)
                   => /\ WritesMatrix /\ HoldsRun(k)
                      /\ harvest_iteration(lines, HarvestState).i >= RunEnd(k)
\* text, a run of three rows, no header: one matrix of three rows
C23_Witness ==
    /\ prog = "harvest" /\ pc = "exited"
    /\ lines = << <<W("text")>>, <<N(1), N(2)>>, <<N(3), ND(4), N(5)>>, <<N(1), N(2)>> >>
    /\ Len(written) = 1
    /\ h_files[written[1]].rows
          = << <<N(1), N(2), EMPTY>>, <<N(3), parse_number(ND(4)), N(5)>>,
               <<N(1), N(2), EMPTY>> >>

\* the pulldown_on value of the last row of a table with that column
EndValue(tbl) ==
    LET c == CHOOSE k \in 1..Len(tbl.cols) : tbl.cols[k] = W("pulldown_on")
    IN  tbl.rows[Len(tbl.rows)][c].v
HasEndValue(tbl) ==
    /\ tbl # EMPTY_TABLE /\ tbl.rows # <<>>
    /\ \E k \in 1..Len(tbl.cols) :
         tbl.cols[k] = W("pulldown_on") /\ k <= Len(tbl.rows[Len(tbl.rows)])

\* C24: the VT cross-check changes no corner: the vt mapping is the one the
\* same tables get without the check (as for iv); and when the pulldown_on
\* end value is found in all three corners there is a VT warning exactly
\* when min < typ < max does not hold.
C24_VtCheckAdvisory ==
    V2Done
        => /\ \A c \in {"typ", "min", "max"} :
                vt_map[c] = choose_corners_by_order_and_checks(out.vt, "iv")[c]
           /\ (\A c \in {"typ", "min", "max"} : HasEndValue(vt_map[c]))
                 => (v2_meta.vt_voltage_warning # ""
                        <=> ~(EndValue(vt_map.min) < EndValue(vt_map.typ)
                              /\ EndValue(vt_map.typ) < EndValue(vt_map.max)))
\* end values 25, 0, 85 in file order typ, min, max: no warning
C24_Witness ==
    /\ V2Done /\ Len(out.vt) = 3 /\ NoTemps(out.vt)
    /\ EndValue(vt_map.typ) = 25 /\ EndValue(vt_map.min) = 0 /\ EndValue(vt_map.max) = 85
    /\ v2_meta.vt_voltage_warning = ""

\* line k is a phase banner; the params of the block that follows it
IsBanner(k) == k < Len(lines) /\ (VT_BANNER(At(lines, k)) \/ IV_BANNER(At(lines, k)))
BannerParams(k) ==
    param_scan(lines, k + 1, <<>>, IF VT_BANNER(At(lines, k)) THEN "vt" ELSE "iv").params
\* the pending params come from a banner behind which no table has been
\* flushed yet: a numeric row between the banner and line i starts the run
\* that is being read
FreshParams ==
    pending_params # <<>>
        => \E b \in 0..(i - 1) :
             /\ IsBanner(b) /\ pending_params = BannerParams(b)
             /\ \A k \in (b + 1)..(i - 1) :
                  V2_NUM_ROW(At(lines, k))
                     => \A m \in k..(i - 1) : V2_NUM_ROW(At(lines, m))
\* a flushed table takes the pending params, which are cleared; params are
\* set only at a banner, to the params of its block
AttachOnce ==
    /\ \A ph \in PHASES :
         out'[ph] # out[ph]
            => /\ Len(out'[ph]) = Len(out[ph]) + 1
               /\ out'[ph][Len(out'[ph])].params = pending_params
               /\ pending_params' = <<>> \/ IsBanner(i)
    /\ pending_params' \notin {pending_params, <<>>}
          => IsBanner(i) /\ pending_params' = BannerParams(i)

\* C26: the params of a table hold no value captured before the previous
\* table was flushed: params are filled only by the block after a banner,
\* go to the first table flushed after that banner and are then cleared, so
\* a later table without a banner of its own has empty params.
C26_NoStaleParams ==
    /\ [](prog = "hav_v2" /\ pc = "scan" => FreshParams)
    /\ [][prog = "hav_v2" /\ pc = "scan" => AttachOnce]_vars
\* a banner with `temp = 25` and two tables: only the first has params
C26_Witness ==
    /\ V2Done /\ Len(out.vt) = 2
    /\ out.vt[1].params # <<>> /\ out.vt[2].params = <<>>

\* a table appended to a phase's list is appended to the current phase's,
\* and holds the rows read under it
FiledUnderPhase ==
    \A ph \in PHASES :
      out'[ph] # out[ph]
         => /\ ph = phase /\ phase' = phase
            /\ Len(out'[ph]) = Len(out[ph]) + 1
            /\ out'[ph][Len(out'[ph])].rows
                  = IF i < Len(lines) THEN Append(current_rows, At(lines, i))
                    ELSE current_rows

\* C29: whenever rows are pending the phase is vt or iv (rows before the
\* first banner are not accumulated), no flush files a table under an
\* unknown key, no rows are pending when a banner is processed, and a table
\* is filed under the phase that was current when its rows were read.
C29_RowsHavePhase ==
    /\ [](prog = "hav_v2"
            => /\ current_rows # <<>> => phase \in PHASES
               /\ pc # "crashed"
               /\ (pc = "scan" /\ IsBanner(i)) => current_rows = <<>>)
    /\ [][prog = "hav_v2" /\ pc = "scan" => FiledUnderPhase]_vars
\* a numeric row before the first banner and one after it: one vt table of
\* one row
C29_Witness ==
    /\ V2Done /\ Len(lines) = 3
    /\ V2_NUM_ROW(lines[1]) /\ VT_BANNER(lines[2]) /\ V2_NUM_ROW(lines[3])
    /\ Len(out.vt) = 1 /\ out.vt[1].rows = <<lines[3]>> /\ out.iv = <<>>

CarriesTemp(tbl) == tbl # EMPTY_TABLE /\ "temp" \in DOMAIN tbl.params
MapOf(ph) == IF ph = "vt" THEN vt_map ELSE iv_map
\* the k-th of the first three tables, {} where the list is shorter
Nth(tables, k) == IF k <= Len(tables) THEN tables[k] ELSE EMPTY_TABLE

\* C30: for every list of tables the mapping has typ, min and max and
\* exactly one of _temp_info and _temp_warning: _temp_info when the first
\* three tables all carry a temp, the three corners then being these tables
\* with max the coldest and min the hottest; _temp_warning otherwise, with
\* the file order typ, min, max.
C30_InfoOrWarning ==
    (prog = "choose_corners" /\ pc = "done")
        => \A ph \in PHASES :
             LET m == MapOf(ph)
                 all3 == \A k \in 1..3 : CarriesTemp(Nth(out[ph], k))
             IN  /\ {"typ", "min", "max"} \subseteq DOMAIN m
                 /\ m.temp_info # m.temp_warning
                 /\ m.temp_info <=> all3
                 /\ all3 => /\ {m.typ, m.min, m.max} = {out[ph][k] : k \in 1..3}
                            /\ m.max.params["temp"] <= m.typ.params["temp"]
                            /\ m.typ.params["temp"] <= m.min.params["temp"]
                 /\ ~all3 => /\ m.typ = Nth(out[ph], 1)
                             /\ m.min = Nth(out[ph], 2)
                             /\ m.max = Nth(out[ph], 3)
\* four tables, the first three at 25, 0 and 85 degrees, the fourth without
C30_Witness ==
    /\ prog = "choose_corners" /\ pc = "done"
    /\ Len(out.iv) = 4 /\ ~CarriesTemp(out.iv[4])
    /\ iv_map.temp_info /\ ~iv_map.temp_warning
    /\ iv_map.typ = out.iv[1] /\ iv_map.max = out.iv[2] /\ iv_map.min = out.iv[3]
    /\ out.iv[1].params["temp"] = 25 /\ out.iv[2].params["temp"] = 0

MetaOf(k) == assigned[k].block.meta
\* the cue recorded for a table is that of the .alter line its metadata
\* names, and no two tables name the same .alter line
CueOfOneLine ==
    \A k \in 1..Len(assigned) :
      /\ MetaOf(k).pre_table_alter_cue_line = None => MetaOf(k).pre_table_alter_cue = NoCue
      /\ MetaOf(k).pre_table_alter_cue_line # None
            => /\ ALTER_LINE(lines[MetaOf(k).pre_table_alter_cue_line])
               /\ MetaOf(k).pre_table_alter_cue
                     = alter_cue(lines, MetaOf(k).pre_table_alter_cue_line - 1)
               /\ \A j \in 1..Len(assigned) :
                    j # k => MetaOf(j).pre_table_alter_cue_line
                                # MetaOf(k).pre_table_alter_cue_line
\* one iteration: an .alter line seen in a phase sets that phase's pending
\* cue, a recorded table takes its phase's pending cue and clears it, its
\* corner is the one of its rank, and nothing else touches a pending cue
CueStep ==
    LET seen == ALTER_LINE(At(lines, i)) /\ current_phase' \in PHASES
        pend == IF seen THEN [pending_cue EXCEPT ![current_phase'] = alter_cue(lines, i)]
                ELSE pending_cue
        new == assigned'[Len(assigned')]
        rank == seen_tables[current_phase'] + 1
    IN  IF Len(assigned') > Len(assigned)
        THEN /\ new.block.meta.pre_table_alter_cue = pend[current_phase']
             /\ pending_cue' = [pend EXCEPT ![current_phase'] = NoCue]
             /\ new.key = <<current_phase',
                            IF rank = 1 THEN "min" ELSE IF rank = 2 THEN "max" ELSE "typ">>
        ELSE pending_cue' = pend

\* C27: an .ALTER cue influences no corner label and goes to at most one
\* table: the cue recorded for a table is that of the most recent .alter
\* line seen in the table's phase since the previous table of that phase
\* (None without one), and recording it leaves the phase's pending cue None
\* until another .alter line is seen.
C27_CueOnce ==
    /\ [](prog = "hav" => CueOfOneLine)
    /\ [][(prog = "hav" /\ pc = "scan" /\ i < Len(lines)) => CueStep]_vars
\* banner, `.alter $ max`, two tables: the first is recorded with the cue max
\* although it is the phase's min table, the second with None
C27_Witness ==
    /\ prog = "hav" /\ pc = "parsed" /\ Len(assigned) = 2
    /\ assigned[1].key = <<"vt", "min">> /\ MetaOf(1).pre_table_alter_cue = "max"
    /\ assigned[2].key = <<"vt", "max">> /\ MetaOf(2).pre_table_alter_cue = NoCue

\* C28: in harvest, table_index is len(written) + 1 throughout: the written
\* tables are numbered 1, 2, ..., n in the order they were written, a
\* candidate without rows takes no index, and no two tables go to the same
\* file name.
C28_IndexIsCount ==
    prog = "harvest"
        => /\ table_index = Len(written) + 1
           /\ \A k \in 1..Len(written) : written[k].index = k
           /\ \A k \in 1..Len(written) : \A m \in 1..Len(written) :
                k # m => written[k] # written[m]
           /\ DOMAIN h_files = {written[k] : k \in 1..Len(written)}
           /\ Cardinality(DOMAIN h_files) = Len(written)
\* the same header with a row twice: files 1 and 2, alike but for the index
C28_Witness ==
    /\ prog = "harvest" /\ pc = "exited" /\ Len(written) = 2
    /\ lines = << <<W("time"), GAP, W("va")>>, <<N(1), N(2)>>,
                  <<W("time"), GAP, W("va")>>, <<N(1), N(2)>> >>
    /\ written[1].hdr = written[2].hdr /\ written[1].base = written[2].base
    /\ written[1].index = 1 /\ written[2].index = 2
    /\ table_index = 3

\* C25: every iteration of the main loop of harvest.py's harvest, hav.py's
\* parse_lis and hav_v2's parse_lis, sub-scans included, ends at a higher
\* line index than it began with (or leaves the loop), the index never
\* passes the end of the document by more than one, and every scan ends.
C25_ForwardProgress ==
    /\ [][(prog \in {"harvest", "hav", "hav_v2"} /\ pc = "scan")
             => /\ i' > i \/ pc' # "scan"
                /\ i' >= i /\ i' <= Len(lines) + 1]_vars
    /\ <>(pc \notin {"start", "scan"})
\* a banner and its parameter line: the sub-scan took the scan from line 0
\* past the parameter line in one iteration, and the scan ended
C25_Witness ==
    /\ prog = "hav_v2" /\ pc = "done" /\ Len(lines) = 2
    /\ VT_BANNER(lines[1]) /\ PARAM_KV(lines[2])
    /\ parse_iteration(lines, 0, [out |-> [vt |-> <<>>, iv |-> <<>>], phase |-> NoPhase,
                                  pending_params |-> <<>>, current_cols |-> <<>>,
                                  current_rows |-> <<>>, exc |-> ""]).i = 2
    /\ i = 2

====
